---------------------------- MODULE Spec2Model ----------------------------
(***************************************************************************)
(* Model of the in-process memory and retrieval core of the backend:       *)
(*   - ConversationMemory (app/core/memory.py): the bounded per-session    *)
(*     message logs, their metadata and the token-budgeted context window; *)
(*   - ResearchEngine._chunk_text (app/modules/research/engine.py): the    *)
(*     word-window chunker;                                                *)
(*   - RAGStore (app/modules/research/rag.py): the chunk store and its     *)
(*     word index;                                                         *)
(*   - ResearchEngine (app/modules/research/engine.py): the documents, the *)
(*     list of their chunks, retrieval and the grounded query;             *)
(*   - the request handlers (app/api/routes, Agent.process): coroutines of *)
(*     one event loop that run these methods statement by statement.       *)
(*                                                                         *)
(* Texts are sequences of one-character strings, so that str.split,        *)
(* str.upper, " ".join and "\n".join are computed, not assumed.            *)
(* Optional[T] arguments are sets with at most one element: {} is None.    *)
(***************************************************************************)
EXTENDS Integers, Sequences, FiniteSets, TLC

VARIABLES
    max_history,   \* ConversationMemory.max_history
    sessions,      \* ConversationMemory._sessions : session id -> list of Message
    metadata,      \* ConversationMemory._metadata : session id -> dict
    next_id,       \* number of Message objects built so far (their ids are fresh tokens)
    appended,      \* history variable: messages appended to an id since its last create/clear/delete
    last,          \* the last call made on the memory: operation, arguments, returned value
    text,          \* _chunk_text: argument text
    chunk_size,    \* _chunk_text: argument chunk_size
    overlap,       \* _chunk_text: argument overlap
    chunked,       \* _chunk_text: outcome of the call, once made
    rag_chunks,    \* RAGStore._chunks : chunk id -> chunk
    rag_index,     \* RAGStore._index : word -> list of chunk ids
    rag_last,      \* the last call made on the store: operation, arguments, returned value
    added_under,   \* history variable: doc id -> contents added under it and not removed since
    deleted_docs,  \* history variable: doc ids deleted, with no chunk added under them since
    latest_add,    \* history variable: content -> doc id and metadata of its latest add, if no
                   \* delete_by_doc of that doc id and no clear came since
    eng_documents, \* ResearchEngine._documents : doc id -> document record
    eng_chunks,    \* ResearchEngine._chunks : list of chunk records
    eng_uuids,     \* number of ids uuid.uuid4() has given so far
    eng_last,      \* the last call made on the engine: operation, arguments, returned value
    task,          \* request handler -> the request it serves and the statement it is at
    running,       \* the handler that holds the event loop between two of its statements
    seen,          \* what the last read of a handler found in the store it read
    focus          \* the store the handlers of this behaviour work on

memvars == <<max_history, sessions, metadata, next_id, appended, last>>
chunkvars == <<text, chunk_size, overlap, chunked>>
ragvars == <<rag_chunks, rag_index, rag_last, added_under, deleted_docs,
             latest_add>>
engvars == <<eng_documents, eng_chunks, eng_uuids, eng_last>>
loopvars == <<task, running, seen, focus>>
vars == <<max_history, sessions, metadata, next_id, appended, last,
          text, chunk_size, overlap, chunked,
          rag_chunks, rag_index, rag_last, added_under, deleted_docs, latest_add,
          eng_documents, eng_chunks, eng_uuids, eng_last,
          task, running, seen, focus>>

---------------------------------------------------------------------------
(* Bounds of the model.                                                    *)

\* Message objects built in one behaviour.
MaxMessages == 3
\* Largest explicit limit passed to get_history.
MaxLimit == 3
\* Largest explicit max_tokens passed to get_context. Kept below 13: the
\* code adds IEEE doubles (n * 1.3), whose rounding can change a comparison
\* only when the exact sum equals max_tokens, i.e. 13 * words = 10 * max_tokens.
MaxBudget == 5
\* Longest text (in characters) given to _chunk_text.
MaxTextLen == 7
\* Largest chunk_size and overlap given to _chunk_text.
MaxChunkSize == 3
MaxOverlap == 3
\* Largest explicit top_k passed to RAGStore.search and ResearchEngine.query.
MaxTopK == 2
\* Documents ingested in one behaviour.
MaxIngests == 2
MaxProcessCalls == 2

(* Program constants.                                                      *)
max_conversation_history == 20
max_context_tokens == 4096
default_top_k == 5
default_chunk_size == 500
default_overlap == 50
default_query_top_k == 3

---------------------------------------------------------------------------
(* Python values.                                                          *)

None == {}
Some(v) == {v}
Val(o) == CHOOSE v \in o : TRUE
\* Truth value of an Optional[int]: None and 0 are both false.
Truthy(o) == o # {} /\ Val(o) # 0
\* `o or d` for an Optional[int] o.
OrElse(o, d) == IF Truthy(o) THEN Val(o) ELSE d

Min(a, b) == IF a < b THEN a ELSE b
Max(a, b) == IF a > b THEN a ELSE b

\* seq[start:]
PySliceFrom(seq, start) ==
    LET n == Len(seq)
        lo == IF start < 0 THEN Max(n + start, 0) ELSE Min(start, n)
    IN SubSeq(seq, lo + 1, n)

\* seq[a:b] for a >= 0 and b >= 0
PySlice(seq, a, b) == SubSeq(seq, Min(a, Len(seq)) + 1, Min(b, Len(seq)))

Whitespace == {" ", "\n"}

\* str.split(): the maximal runs of non-whitespace characters, in order.
\* The words of s[lo..hi] are those of its two halves, the word that ends
\* the first half and the word that starts the second being one word when
\* no whitespace separates them (halving keeps the evaluation shallow on
\* the texts of several hundred words that the default chunk size needs).
RECURSIVE SplitRange(_, _, _)
SplitRange(s, lo, hi) ==
    IF lo > hi THEN <<>>
    ELSE IF lo = hi
         THEN IF s[lo] \in Whitespace THEN <<>> ELSE <<SubSeq(s, lo, lo)>>
    ELSE LET mid == (lo + hi) \div 2
             l == SplitRange(s, lo, mid)
             r == SplitRange(s, mid + 1, hi)
         IN IF s[mid] \notin Whitespace /\ s[mid + 1] \notin Whitespace
            THEN SubSeq(l, 1, Len(l) - 1) \o <<l[Len(l)] \o r[1]>> \o Tail(r)
            ELSE l \o r

Split(s) == SplitRange(s, 1, Len(s))

\* sep.join(parts)
RECURSIVE Join(_, _)
Join(parts, sep) ==
    IF parts = <<>> THEN <<>>
    ELSE IF Len(parts) = 1 THEN parts[1]
    ELSE LET m == Len(parts) \div 2
         IN Join(SubSeq(parts, 1, m), sep) \o sep
            \o Join(SubSeq(parts, m + 1, Len(parts)), sep)

\* str.upper() on the characters the model uses.
UpperChar(c) ==
    CASE c = "u" -> "U" [] c = "s" -> "S" [] c = "e" -> "E" [] c = "r" -> "R"
      [] c = "a" -> "A" [] c = "i" -> "I" [] c = "t" -> "T" [] c = "n" -> "N"
      [] OTHER -> c

Upper(s) == [i \in 1..Len(s) |-> UpperChar(s[i])]

---------------------------------------------------------------------------
(* Inputs.                                                                 *)

\* Session ids callers pass. Ids are non-empty strings: validate_session_id
\* rejects an empty id, and Agent.process and create_session treat a false
\* id as absent.
SessionIds == {"s1"}
\* Ids generate_session_id() can return.
GenIds == {"g1"}
AllIds == SessionIds \cup GenIds

RoleUser == <<"u", "s", "e", "r">>
RoleAi == <<"a", "i">>

\* (role, content) pairs given to add_message: an empty content and one of
\* two words, rendered as lines of 1 and 3 words.
MessageInputs ==
    { [role |-> RoleUser, content |-> <<>>],
      [role |-> RoleAi, content |-> <<"o", " ", "k">>] }

\* max_history as given to the constructor.
MaxHistoryArgs == {None, Some(1), Some(2)}
LimitArgs == {None} \cup {Some(n) : n \in -1..MaxLimit}
BudgetArgs == {None} \cup {Some(n) : n \in 0..MaxBudget}

---------------------------------------------------------------------------
(* ConversationMemory: the methods as functions of the store.              *)
(* A store is [sessions |-> _sessions, metadata |-> _metadata]; a method   *)
(* gives [ret |-> the value returned, st |-> the store it leaves].         *)
(* A Message is [role, content, message_id]; its timestamp and its         *)
(* metadata dict are carried but never read by the memory, and are left    *)
(* out, as are the created_at / last_message_at time stamps of a session.  *)

\* Faulty variant of Put: the dict is replaced by one that has the item only.
PutAlone(f, k, v) == [x \in {k} |-> v]

\* d[k] = v
Put(f, k, v) == [x \in (DOMAIN f) \cup {k} |-> IF x = k THEN v ELSE f[x]]
Remove(f, k) == [x \in (DOMAIN f) \ {k} |-> f[x]]
EmptyMap == [x \in {} |-> <<>>]

\* Message.__init__ ; the id is a fresh token, modelled by a serial number.
Message(role, content, serial) ==
    [role |-> role, content |-> content, message_id |-> serial]

\* Message.to_dict
to_dict(msg) ==
    [role |-> msg.role, content |-> msg.content, message_id |-> msg.message_id]

\* Faulty variant of create_session: an id that is live keeps its log.
create_session_keeping(st, session_id) ==
    IF session_id \in DOMAIN st.sessions
    THEN [ret |-> session_id, st |-> st]
    ELSE [ret |-> session_id,
          st |-> [sessions |-> Put(st.sessions, session_id, <<>>),
                  metadata |-> Put(st.metadata, session_id,
                                   [message_count |-> 0])]]

\* create_session with the id already chosen (given, or generated).
create_session(st, session_id) ==
    [ret |-> session_id,
     st |-> [sessions |-> Put(st.sessions, session_id, <<>>),
             metadata |-> Put(st.metadata, session_id, [message_count |-> 0])]]

\* Faulty variant of Trim: log[:max_history], which keeps the oldest messages.
TrimKeepOldest(log, mh) ==
    IF Len(log) > mh THEN PySlice(log, 0, mh) ELSE log

\* "Trim history if needed": a log longer than max_history keeps its last
\* max_history messages.
Trim(log, mh) ==
    IF Len(log) > mh THEN PySliceFrom(log, -mh) ELSE log

\* Faulty variant of add_message: message_count counts the appends, and not
\* the messages that the log holds after the trim.
add_message_counting_appends(st, session_id, msg, mh) ==
    LET st1 == IF session_id \notin DOMAIN st.sessions
               THEN create_session(st, session_id).st
               ELSE st
        log == Trim(Append(st1.sessions[session_id], msg), mh)
    IN [ret |-> msg.message_id,
        st |-> [sessions |-> Put(st1.sessions, session_id, log),
                metadata |->
                    IF session_id \in DOMAIN st1.metadata
                    THEN Put(st1.metadata, session_id,
                             [st1.metadata[session_id]
                                 EXCEPT !.message_count = @ + 1])
                    ELSE st1.metadata]]

add_message(st, session_id, msg, mh) ==
    LET st1 == IF session_id \notin DOMAIN st.sessions
               THEN create_session(st, session_id).st
               ELSE st
        log == Trim(Append(st1.sessions[session_id], msg), mh)
    IN [ret |-> msg.message_id,
        st |-> [sessions |-> Put(st1.sessions, session_id, log),
                metadata |->
                    IF session_id \in DOMAIN st1.metadata
                    THEN Put(st1.metadata, session_id,
                             [st1.metadata[session_id]
                                 EXCEPT !.message_count = Len(log)])
                    ELSE st1.metadata]]

\* Faulty variant of get_history: no membership test, so that the
\* defaultdict inserts an empty log for an absent id.
get_history_inserting(st, session_id, limit) ==
    LET st1 == IF session_id \in DOMAIN st.sessions THEN st
               ELSE [sessions |-> Put(st.sessions, session_id, <<>>),
                     metadata |-> st.metadata]
        messages == st1.sessions[session_id]
        kept == IF Truthy(limit)
                THEN PySliceFrom(messages, -Val(limit))
                ELSE messages
    IN [ret |-> [i \in 1..Len(kept) |-> to_dict(kept[i])], st |-> st1]

\* The membership test comes first: _sessions is a defaultdict, and indexing
\* it with an absent id would insert the id.
get_history(st, session_id, limit) ==
    IF session_id \notin DOMAIN st.sessions
    THEN [ret |-> <<>>, st |-> st]
    ELSE LET messages == st.sessions[session_id]
             kept == IF Truthy(limit)
                     THEN PySliceFrom(messages, -Val(limit))
                     ELSE messages
         IN [ret |-> [i \in 1..Len(kept) |-> to_dict(kept[i])], st |-> st]

\* f"{msg['role'].upper()}: {msg['content']}"
RenderMessage(msg) == Upper(msg.role) \o <<":", " ">> \o msg.content

\* len(msg_text.split()) * 1.3, in tenths of a token.
TokenCost(msg_text) == Len(Split(msg_text)) * 13

\* Faulty variant of ContextLoop: `continue` in place of `break`, so that a
\* message that does not fit is skipped and older ones are still admitted.
RECURSIVE ContextLoopSkip(_, _, _, _)
ContextLoopSkip(history, i, acc, max_tokens) ==
    IF i = 0 THEN acc
    ELSE LET msg_text == RenderMessage(history[i])
             msg_tokens == TokenCost(msg_text)
         IN IF acc.estimated_tokens + msg_tokens > 10 * max_tokens
            THEN ContextLoopSkip(history, i - 1, acc, max_tokens)
            ELSE ContextLoopSkip(history, i - 1,
                     [context_parts |-> <<msg_text>> \o acc.context_parts,
                      estimated_tokens |-> acc.estimated_tokens + msg_tokens],
                     max_tokens)

\* The loop of get_context over reversed(history): i is the message visited,
\* acc the context_parts and estimated_tokens (in tenths) so far.
RECURSIVE ContextLoop(_, _, _, _)
ContextLoop(history, i, acc, max_tokens) ==
    IF i = 0 THEN acc
    ELSE LET msg_text == RenderMessage(history[i])
             msg_tokens == TokenCost(msg_text)
         IN IF acc.estimated_tokens + msg_tokens > 10 * max_tokens
            THEN acc
            ELSE ContextLoop(history, i - 1,
                     [context_parts |-> <<msg_text>> \o acc.context_parts,
                      estimated_tokens |-> acc.estimated_tokens + msg_tokens],
                     max_tokens)

get_context(st, session_id, max_tokens) ==
    LET budget == OrElse(max_tokens, max_context_tokens)
        h == get_history(st, session_id, None)
        acc == ContextLoop(h.ret, Len(h.ret),
                           [context_parts |-> <<>>, estimated_tokens |-> 0],
                           budget)
    IN [ret |-> Join(acc.context_parts, <<"\n">>), st |-> h.st]

\* Faulty variant of clear_session: no membership test, so that an unknown
\* id is inserted (by the defaultdict) and reported cleared.
clear_session_unguarded(st, session_id) ==
    [ret |-> TRUE,
     st |-> [sessions |-> Put(st.sessions, session_id, <<>>),
             metadata |-> st.metadata]]

\* Faulty variant of clear_session: the log is removed, not emptied.
clear_session_dropping(st, session_id) ==
    IF session_id \in DOMAIN st.sessions
    THEN [ret |-> TRUE,
          st |-> [sessions |-> Remove(st.sessions, session_id),
                  metadata |-> st.metadata]]
    ELSE [ret |-> FALSE, st |-> st]

clear_session(st, session_id) ==
    IF session_id \in DOMAIN st.sessions
    THEN [ret |-> TRUE,
          st |-> [sessions |-> Put(st.sessions, session_id, <<>>),
                  metadata |->
                      IF session_id \in DOMAIN st.metadata
                      THEN Put(st.metadata, session_id,
                               [st.metadata[session_id]
                                   EXCEPT !.message_count = 0])
                      ELSE st.metadata]]
    ELSE [ret |-> FALSE, st |-> st]

\* Faulty variant of delete_session: the metadata entry is left behind.
delete_session_keeping_metadata(st, session_id) ==
    IF session_id \in DOMAIN st.sessions
    THEN [ret |-> TRUE,
          st |-> [sessions |-> Remove(st.sessions, session_id),
                  metadata |-> st.metadata]]
    ELSE [ret |-> FALSE, st |-> st]

delete_session(st, session_id) ==
    IF session_id \in DOMAIN st.sessions
    THEN [ret |-> TRUE,
          st |-> [sessions |-> Remove(st.sessions, session_id),
                  metadata |->
                      IF session_id \in DOMAIN st.metadata
                      THEN Remove(st.metadata, session_id)
                      ELSE st.metadata]]
    ELSE [ret |-> FALSE, st |-> st]

\* None, or the dict: message_count is len(log) unless the metadata dict,
\* unpacked after it, holds its own.
get_session_info(st, session_id) ==
    IF session_id \notin DOMAIN st.sessions
    THEN [ret |-> None, st |-> st]
    ELSE [ret |-> Some([session_id |-> session_id,
                        message_count |->
                            IF session_id \in DOMAIN st.metadata
                            THEN st.metadata[session_id].message_count
                            ELSE Len(st.sessions[session_id])]),
          st |-> st]

\* The ids listed (their order, the dict's insertion order, is not modelled).
list_sessions(st) == [ret |-> DOMAIN st.sessions, st |-> st]

---------------------------------------------------------------------------
(* ConversationMemory: the calls, as actions.                              *)

Store == [sessions |-> sessions, metadata |-> metadata]

\* The record of a call: `was` is the length of the log the target session
\* had when the call was made (None when it was not live).
Was(session_id) ==
    IF session_id \in DOMAIN sessions THEN Some(Len(sessions[session_id]))
    ELSE None

\* The sessions other than the target of a call, as the call finds them.
Rest(sid) ==
    [sessions |-> [s \in (DOMAIN sessions) \ sid |-> sessions[s]],
     metadata |-> [s \in (DOMAIN metadata) \ sid |-> metadata[s]]]

\* The methods that only read.
ReadOps == {"get_history", "get_context", "get_session_info", "list_sessions"}

\* `rest` is what the call found of the other sessions and `found`, for a
\* method that only reads, the whole store as the call found it.
Call(op, sid, arg, ret, was) ==
    [op |-> op, sid |-> sid, arg |-> arg, ret |-> ret, was |-> was,
     rest |-> Rest(sid),
     found |-> IF op \in ReadOps THEN Some(Store) ELSE None]

\* The call leaves the store r.st (and no call on the memory touches the
\* chunker).
Leaves(r) ==
    /\ sessions' = r.st.sessions
    /\ metadata' = r.st.metadata
    /\ UNCHANGED <<chunkvars, ragvars, engvars, loopvars>>

\* create_session(session_id): without an id, one is generated; a generated
\* id is fresh (not an id of a live session).
CreateSession ==
    \E arg \in {None} \cup {Some(s) : s \in AllIds} :
    \E session_id \in IF arg # None THEN arg ELSE GenIds \ DOMAIN sessions :
        LET r == create_session(Store, session_id)
        IN /\ Leaves(r)
           /\ appended' = [appended EXCEPT ![session_id] = <<>>]
           /\ last' = Call("create_session", arg, None, r.ret, Was(session_id))
           /\ UNCHANGED <<max_history, next_id>>

AddMessage ==
    \E session_id \in AllIds, m \in MessageInputs :
        /\ next_id < MaxMessages
        /\ LET msg == Message(m.role, m.content, next_id + 1)
               r == add_message(Store, session_id, msg, max_history)
           IN /\ Leaves(r)
              /\ next_id' = next_id + 1
              /\ appended' = [appended EXCEPT ![session_id] = Append(@, msg)]
              /\ last' = Call("add_message", Some(session_id), m, r.ret,
                              Was(session_id))
        /\ UNCHANGED max_history

GetHistory ==
    \E session_id \in AllIds, limit \in LimitArgs :
        LET r == get_history(Store, session_id, limit)
        IN /\ Leaves(r)
           /\ last' = Call("get_history", Some(session_id), limit, r.ret,
                           Was(session_id))
           /\ UNCHANGED <<max_history, next_id, appended>>

GetContext ==
    \E session_id \in AllIds, max_tokens \in BudgetArgs :
        LET r == get_context(Store, session_id, max_tokens)
        IN /\ Leaves(r)
           /\ last' = Call("get_context", Some(session_id), max_tokens, r.ret,
                           Was(session_id))
           /\ UNCHANGED <<max_history, next_id, appended>>

ClearSession ==
    \E session_id \in AllIds :
        LET r == clear_session(Store, session_id)
        IN /\ Leaves(r)
           /\ appended' = IF r.ret THEN [appended EXCEPT ![session_id] = <<>>]
                          ELSE appended
           /\ last' = Call("clear_session", Some(session_id), None, r.ret,
                           Was(session_id))
           /\ UNCHANGED <<max_history, next_id>>

DeleteSession ==
    \E session_id \in AllIds :
        LET r == delete_session(Store, session_id)
        IN /\ Leaves(r)
           /\ appended' = IF r.ret THEN [appended EXCEPT ![session_id] = <<>>]
                          ELSE appended
           /\ last' = Call("delete_session", Some(session_id), None, r.ret,
                           Was(session_id))
           /\ UNCHANGED <<max_history, next_id>>

GetSessionInfo ==
    \E session_id \in AllIds :
        LET r == get_session_info(Store, session_id)
        IN /\ Leaves(r)
           /\ last' = Call("get_session_info", Some(session_id), None, r.ret,
                           Was(session_id))
           /\ UNCHANGED <<max_history, next_id, appended>>

ListSessions ==
    LET r == list_sessions(Store)
    IN /\ Leaves(r)
       /\ last' = Call("list_sessions", None, None, r.ret, None)
       /\ UNCHANGED <<max_history, next_id, appended>>

---------------------------------------------------------------------------
(* ResearchEngine._chunk_text                                              *)

\* range(i, stop, step), step # 0, as the list of its values.
RECURSIVE Range(_, _, _)
Range(i, stop, step) ==
    IF (step > 0 /\ i < stop) \/ (step < 0 /\ i > stop)
    THEN <<i>> \o Range(i + step, stop, step)
    ELSE <<>>

\* Faulty variant of Stride: the windows do not overlap.
StrideIgnoringOverlap(size, ovl) == size

\* The step of the loop over the words.
Stride(size, ovl) == size - ovl

\* The outcome: the chunks returned, or raised (range() refuses a step of 0
\* with a ValueError).
chunk_text(txt, size, ovl) ==
    LET words == Split(txt)
        step == Stride(size, ovl)
    IN IF step = 0
       THEN [raised |-> TRUE, chunks |-> <<>>]
       ELSE LET starts == Range(0, Len(words), step)
                joined == [k \in 1..Len(starts) |->
                              Join(PySlice(words, starts[k], starts[k] + size),
                                   <<" ">>)]
                chunks == SelectSeq(joined, LAMBDA c : c # <<>>)
            IN [raised |-> FALSE,
                chunks |-> IF chunks # <<>> THEN chunks ELSE <<txt>>]

ChunkText ==
    /\ chunked = None
    /\ chunked' = Some(chunk_text(text, chunk_size, overlap))
    /\ UNCHANGED <<text, chunk_size, overlap>>
    /\ UNCHANGED <<memvars, ragvars, engvars, loopvars>>

---------------------------------------------------------------------------
(* RAGStore: the methods as functions of the store.                        *)
(* A store is [chunks |-> _chunks, index |-> _index]; a chunk is           *)
(* [content, doc_id, metadata], the metadata dict being the set of its     *)
(* items.                                                                  *)

\* str.lower() on the characters the model uses.
LowerChar(c) ==
    CASE c = "A" -> "a" [] c = "B" -> "b" [] c = "C" -> "c"
      [] OTHER -> c

Lower(s) == [i \in 1..Len(s) |-> LowerChar(s[i])]

\* set(s.lower().split()): the lowercased maximal runs of non-whitespace
\* characters, each taken from the position where it starts.
Words(s) ==
    LET n == Len(s)
        starts == {i \in 1..n : s[i] \notin Whitespace
                                  /\ (i = 1 \/ s[i - 1] \in Whitespace)}
        end(i) == CHOOSE j \in i..n :
                      /\ j = n \/ s[j + 1] \in Whitespace
                      /\ \A k \in i..j : s[k] \notin Whitespace
    IN {Lower(SubSeq(s, i, end(i))) : i \in starts}

\* Contents given to add_chunk: a capital to fold, a word shared by two
\* contents, a word repeated in one content, and a content without words.
ContentAb == <<"A", " ", "b">>
ContentBc == <<"b", " ", "c">>
ContentAa == <<"a", " ", "A">>
ContentEmpty == <<>>
RagContents == {ContentAb, ContentBc, ContentAa, ContentEmpty}

DocIds == {"d1", "d2"}

\* hashlib.md5(content.encode()).hexdigest()[:16], on the contents above.
md5_16(content) ==
    CASE content = ContentAb -> "bc79052a3f1515cb"
      [] content = ContentBc -> "b5fddffda43ed626"
      [] content = ContentAa -> "5c935c3cc4c0ccb2"
      [] content = ContentEmpty -> "d41d8cd98f00b204"

\* Faulty variant of Post: the chunk id is appended without looking.
PostAlways(postings, chunk_id) == Append(postings, chunk_id)

\* One postings list after `if chunk_id not in ...: append(chunk_id)`.
Post(postings, chunk_id) ==
    IF \E i \in 1..Len(postings) : postings[i] = chunk_id
    THEN postings
    ELSE Append(postings, chunk_id)

\* `metadata or {}`; a dict is the set of its items.
OrEmptyDict(meta) == IF meta = None THEN {} ELSE Val(meta)

\* Faulty variant of add_chunk: a content that is stored keeps its record.
add_chunk_keeping_record(st, content, doc_id, meta) ==
    LET chunk_id == md5_16(content)
        words == Words(content)
    IN [ret |-> chunk_id,
        st |-> [chunks |-> IF chunk_id \in DOMAIN st.chunks THEN st.chunks
                           ELSE Put(st.chunks, chunk_id,
                                    [content |-> content, doc_id |-> doc_id,
                                     metadata |-> OrEmptyDict(meta)]),
                index |-> [w \in (DOMAIN st.index) \cup words |->
                              IF w \in words
                              THEN Post(IF w \in DOMAIN st.index
                                        THEN st.index[w] ELSE <<>>, chunk_id)
                              ELSE st.index[w]]]]

add_chunk(st, content, doc_id, meta) ==
    LET chunk_id == md5_16(content)
        words == Words(content)
    IN [ret |-> chunk_id,
        st |-> [chunks |-> Put(st.chunks, chunk_id,
                               [content |-> content, doc_id |-> doc_id,
                                metadata |-> OrEmptyDict(meta)]),
                index |-> [w \in (DOMAIN st.index) \cup words |->
                              IF w \in words
                              THEN Post(IF w \in DOMAIN st.index
                                        THEN st.index[w] ELSE <<>>, chunk_id)
                              ELSE st.index[w]]]]

\* seq[:k]
PyPrefix(seq, k) ==
    IF k < 0 THEN SubSeq(seq, 1, Max(Len(seq) + k, 0))
    ELSE SubSeq(seq, 1, Min(k, Len(seq)))

\* The orders in which iterating over a set can give its elements: the
\* order of a set of str depends on the hash seed of the process.
Orders(S) ==
    {f \in [1..Cardinality(S) -> S] : \A i, j \in 1..Cardinality(S) :
                                           f[i] = f[j] => i = j}

RECURSIVE Concat(_)
Concat(seqs) == IF seqs = <<>> THEN <<>> ELSE Head(seqs) \o Concat(Tail(seqs))

\* The elements of seq in the order of their first occurrence.
RECURSIVE FirstOccurrences(_)
FirstOccurrences(seq) ==
    IF seq = <<>> THEN <<>>
    ELSE <<Head(seq)>>
         \o FirstOccurrences(SelectSeq(Tail(seq), LAMBDA x : x # Head(seq)))

\* Faulty variant of Count: every visited posting is counted.
CountVisited(seq, x) == Len(seq)

\* The number of times the loop of search adds 1 to chunk_scores[x].
Count(seq, x) == Cardinality({i \in 1..Len(seq) : seq[i] = x})

\* Faulty variant of SortedByScore: the items are left in insertion order.
Unsorted(ids, score, top) == ids

\* sorted(items, key=score, reverse=True) for integer scores in 1..top:
\* the sort is stable, items of equal score keep their order.
RECURSIVE SortedByScore(_, _, _)
SortedByScore(ids, score, top) ==
    IF top < 1 THEN <<>>
    ELSE SelectSeq(ids, LAMBDA c : score[c] = top)
         \o SortedByScore(ids, score, top - 1)

\* search(query, top_k), `order` being the order in which the loop over
\* query_words visits them. A score is <<hits, number of query words>>, the
\* two operands of the division; raised is the KeyError of a chunk id that
\* is in a postings list and not in _chunks.
search(st, query, top_k, order) ==
    LET visited == Concat([i \in 1..Len(order) |->
                              IF order[i] \in DOMAIN st.index
                              THEN st.index[order[i]] ELSE <<>>])
        ids == FirstOccurrences(visited)
        chunk_scores == [c \in {ids[i] : i \in 1..Len(ids)} |-> Count(visited, c)]
        sorted_chunks == PyPrefix(SortedByScore(ids, chunk_scores, Len(visited)),
                                  top_k)
    IN IF \E i \in 1..Len(sorted_chunks) : sorted_chunks[i] \notin DOMAIN st.chunks
       THEN [raised |-> TRUE, rows |-> <<>>]
       ELSE [raised |-> FALSE,
             rows |-> [i \in 1..Len(sorted_chunks) |->
                          [chunk_id |-> sorted_chunks[i],
                           score |-> <<chunk_scores[sorted_chunks[i]], Len(order)>>,
                           content |-> st.chunks[sorted_chunks[i]].content,
                           doc_id |-> st.chunks[sorted_chunks[i]].doc_id,
                           metadata |-> st.chunks[sorted_chunks[i]].metadata]]]

\* list.remove(x): without the first occurrence of x.
RECURSIVE RemoveFirst(_, _)
RemoveFirst(seq, x) ==
    IF seq = <<>> THEN <<>>
    ELSE IF Head(seq) = x THEN Tail(seq)
    ELSE <<Head(seq)>> \o RemoveFirst(Tail(seq), x)

\* One postings list after the removal of each id of `ids` that it holds.
RECURSIVE RemoveEach(_, _)
RemoveEach(postings, ids) ==
    IF ids = {} THEN postings
    ELSE LET c == CHOOSE x \in ids : TRUE
         IN RemoveEach(RemoveFirst(postings, c), ids \ {c})

\* Faulty variant of Unpost: the postings are left as they are.
UnpostNothing(index, chunks, to_delete) == index

\* The index after the postings of the chunks of to_delete are removed
\* under each of their words.
Unpost(index, chunks, to_delete) ==
    [w \in DOMAIN index |->
        RemoveEach(index[w],
                   {c \in to_delete : w \in Words(chunks[c].content)})]

\* Faulty variant of delete_by_doc: the chunks are counted and kept.
delete_by_doc_counting(st, doc_id) ==
    [ret |-> Cardinality({c \in DOMAIN st.chunks : st.chunks[c].doc_id = doc_id}),
     st |-> st]

delete_by_doc(st, doc_id) ==
    LET to_delete == {c \in DOMAIN st.chunks : st.chunks[c].doc_id = doc_id}
    IN [ret |-> Cardinality(to_delete),
        st |-> [chunks |-> [c \in (DOMAIN st.chunks) \ to_delete |-> st.chunks[c]],
                index |-> Unpost(st.index, st.chunks, to_delete)]]

clear(st) == [ret |-> None, st |-> [chunks |-> EmptyMap, index |-> EmptyMap]]

chunk_count(st) == Cardinality(DOMAIN st.chunks)

---------------------------------------------------------------------------
(* RAGStore: one action per method. rag_last records the call: `was` is    *)
(* the set of chunk ids the call found in _chunks, and `under`, for a      *)
(* delete_by_doc, the contents that had been added under its doc id.       *)

\* Queries given to search: one without words, one that two contents match
\* with different scores, one that three contents match with equal scores.
QueryEmpty == <<" ">>
QueryBc == <<"B", " ", "c">>
QueryAc == <<"a", " ", "c">>
RagQueries == {QueryEmpty, QueryBc, QueryAc}

\* top_k as given to search; None is the default of the signature.
TopKArgs == {None} \cup {Some(k) : k \in -1..MaxTopK}

\* The metadata given with a chunk: none with the chunks of d1, the origin
\* with those of the other documents.
MetadataArg(doc_id) ==
    IF doc_id = "d1" THEN None ELSE Some({<<"origin", doc_id>>})

RagStore == [chunks |-> rag_chunks, index |-> rag_index]

\* `found`, for a method that only reads, is the store as the call found it.
RagCall(op, arg, ret) ==
    [op |-> op, arg |-> arg, ret |-> ret, was |-> DOMAIN rag_chunks,
     found |-> IF op \in {"search", "chunk_count"} THEN Some(RagStore) ELSE None]

RagLeaves(r) ==
    /\ rag_chunks' = r.st.chunks
    /\ rag_index' = r.st.index
    /\ UNCHANGED <<memvars, chunkvars, engvars, loopvars>>

AddChunk ==
    \E content \in RagContents, doc_id \in DocIds :
        LET meta == MetadataArg(doc_id)
            r == add_chunk(RagStore, content, doc_id, meta)
        IN /\ RagLeaves(r)
           /\ rag_last' = RagCall("add_chunk",
                                  [content |-> content, doc_id |-> doc_id], r.ret)
           /\ added_under' = [added_under EXCEPT ![doc_id] = @ \cup {content}]
           /\ deleted_docs' = deleted_docs \ {doc_id}
           /\ latest_add' = [latest_add EXCEPT ![content] =
                                 Some([doc_id |-> doc_id,
                                       metadata |-> OrEmptyDict(meta)])]

Search ==
    \E query \in RagQueries, arg \in TopKArgs :
        \E order \in Orders(Words(query)) :
            LET top_k == IF arg = None THEN default_top_k ELSE Val(arg)
                r == search(RagStore, query, top_k, order)
            IN /\ rag_last' = RagCall("search",
                                      [query |-> query, top_k |-> top_k], r)
               /\ UNCHANGED <<rag_chunks, rag_index, added_under, deleted_docs,
                              latest_add>>
               /\ UNCHANGED <<memvars, chunkvars, engvars, loopvars>>

\* The contents whose latest add was under doc_id.
LatestOf(doc_id) ==
    {c \in RagContents :
        latest_add[c] # None /\ Val(latest_add[c]).doc_id = doc_id}

DeleteByDoc ==
    \E doc_id \in DocIds :
        LET r == delete_by_doc(RagStore, doc_id)
            gone == {rag_chunks[c].content :
                        c \in (DOMAIN rag_chunks) \ DOMAIN r.st.chunks}
        IN /\ RagLeaves(r)
           /\ rag_last' = RagCall("delete_by_doc",
                                  [doc_id |-> doc_id, under |-> added_under[doc_id],
                                   latest |-> LatestOf(doc_id)],
                                  r.ret)
           /\ added_under' = [d \in DocIds |-> added_under[d] \ gone]
           /\ deleted_docs' = deleted_docs \cup {doc_id}
           /\ latest_add' = [c \in RagContents |->
                                 IF c \in LatestOf(doc_id) THEN None
                                 ELSE latest_add[c]]

Clear ==
    LET r == clear(RagStore)
    IN /\ RagLeaves(r)
       /\ rag_last' = RagCall("clear", None, r.ret)
       /\ added_under' = [d \in DocIds |-> {}]
       /\ latest_add' = [c \in RagContents |-> None]
       /\ UNCHANGED deleted_docs

ChunkCount ==
    /\ rag_last' = RagCall("chunk_count", None, chunk_count(RagStore))
    /\ UNCHANGED <<rag_chunks, rag_index, added_under, deleted_docs, latest_add>>
    /\ UNCHANGED <<memvars, chunkvars, engvars, loopvars>>

\* The store after construction.
RagInit ==
    /\ rag_chunks = EmptyMap
    /\ rag_index = EmptyMap
    /\ rag_last = [op |-> "init", arg |-> None, ret |-> None, was |-> {},
                   found |-> None]
    /\ added_under = [d \in DocIds |-> {}]
    /\ deleted_docs = {}
    /\ latest_add = [c \in RagContents |-> None]

---------------------------------------------------------------------------
(* ResearchEngine: the methods as functions of the engine state            *)
(* [documents |-> _documents, chunks |-> _chunks]. A document record is    *)
(* [source, chunk_count], its metadata and created_at are never read; a    *)
(* chunk record is [doc_id, chunk_index, content, source].                 *)

\* A text of 451 words, the shortest that the default chunk size and
\* overlap split in two chunks (windows at words 0 and 450).
LongDoc == [i \in 1..901 |-> IF i % 2 = 1 THEN "a" ELSE " "]

\* Contents given to ingest_document.
EngContents == {LongDoc, ContentAb, ContentBc}

SourceDefault == <<"u", "s", "e", "r", "_", "i", "n", "p", "u", "t">>
SourceFile == <<"f">>
Sources == {SourceDefault, SourceFile}

\* str(uuid.uuid4()), the n-th time it is called: a fresh id.
Uuid(n) == <<"uuid", n>>
\* An id that no document has.
UnknownDoc == <<"uuid", 0>>

ingest_document(st, content, source, doc_id) ==
    LET chunks == chunk_text(content, default_chunk_size, default_overlap).chunks
    IN [ret |-> doc_id,
        st |-> [documents |-> Put(st.documents, doc_id,
                                  [source |-> source, chunk_count |-> Len(chunks)]),
                chunks |-> st.chunks
                           \o [i \in 1..Len(chunks) |->
                                  [doc_id |-> doc_id, chunk_index |-> i - 1,
                                   content |-> chunks[i], source |-> source]]]]

\* Faulty variant of delete_document: the chunks of the document are kept.
delete_document_keeping_chunks(st, doc_id) ==
    IF doc_id \notin DOMAIN st.documents
    THEN [ret |-> FALSE, st |-> st]
    ELSE [ret |-> TRUE,
          st |-> [documents |-> Remove(st.documents, doc_id), chunks |-> st.chunks]]

delete_document(st, doc_id) ==
    IF doc_id \notin DOMAIN st.documents
    THEN [ret |-> FALSE, st |-> st]
    ELSE [ret |-> TRUE,
          st |-> [documents |-> Remove(st.documents, doc_id),
                  chunks |-> SelectSeq(st.chunks, LAMBDA c : c.doc_id # doc_id)]]

list_documents(st) ==
    {[id |-> d, source |-> st.documents[d].source,
      chunk_count |-> st.documents[d].chunk_count] : d \in DOMAIN st.documents}

\* The contents of the chunks that ingest_document makes of EngContents.
EngChunkContents ==
    UNION {LET chunks == chunk_text(c, default_chunk_size, default_overlap).chunks
           IN {chunks[i] : i \in 1..Len(chunks)} : c \in EngContents}

\* chunk_words = set(chunk["content"].lower().split()), tabulated once for
\* the contents a chunk of the engine can have.
ChunkWords == [content \in EngChunkContents |-> Words(content)]

\* Faulty variant of Hits: the words of the chunk are counted, in the
\* question or not.
HitsOfChunkWords(chunks, question) ==
    [i \in 1..Len(chunks) |-> Cardinality(ChunkWords[chunks[i].content])] \o <<>>

\* The numerators of the scores of the chunks, in the order of the list:
\* len(question_words & chunk_words); the denominator is len(question_words),
\* and the score is 0 when the question has no word.
Hits(chunks, question) ==
    LET question_words == Words(question)
    IN [i \in 1..Len(chunks) |->
           Cardinality(question_words \cap ChunkWords[chunks[i].content])] \o <<>>

\* Faulty variant of Relevant: the chunks of score 0 are not filtered out.
RelevantUnfiltered(top, hits) == top

\* [c for _, c in scored_chunks[:top_k] if _ > 0], on positions in the list.
Relevant(top, hits) == SelectSeq(top, LAMBDA i : hits[i] > 0)

\* _retrieve_relevant, the scores being given: the list sorted by score
\* (stable, highest first), cut to top_k, without the chunks of score 0.
retrieve_relevant_scored(st, hits, top_k, levels) ==
    IF st.chunks = <<>> THEN <<>>
    ELSE LET idx == [i \in 1..Len(st.chunks) |-> i]
             scored_chunks == SortedByScore(idx, hits, levels)
                              \o SelectSeq(idx, LAMBDA i : hits[i] = 0)
             kept == Relevant(PyPrefix(scored_chunks, top_k), hits)
         IN [k \in 1..Len(kept) |-> st.chunks[kept[k]]]

retrieve_relevant(st, question, top_k) ==
    retrieve_relevant_scored(st, Hits(st.chunks, question), top_k,
                             Cardinality(Words(question)))

\* The answer of query when nothing relevant was retrieved.
Sentinel ==
    <<"I don't have any documents to search. Please upload or ingest documents first.">>

\* What `await self.llm.generate(...)` can do: return a response or raise.
GenOutcomes ==
    { [raised |-> FALSE, response |-> <<"o", "k">>],
      [raised |-> TRUE, response |-> <<>>] }

\* f"[Source: {c['source']}]\n{c['content']}"
Excerpt(c) ==
    <<"[", "S", "o", "u", "r", "c", "e", ":", " ">> \o c.source \o <<"]", "\n">>
        \o c.content

\* The orders in which list(set(...)) can give the sources of the chunks.
SourceLists(relevant_chunks) ==
    Orders({relevant_chunks[i].source : i \in 1..Len(relevant_chunks)})

\* query, from the chunks retrieved by its first statement on. `generated`
\* lists the calls of llm.generate, each with the context and the question
\* that its prompt embeds; `sources` is the list that list(set(...)) gives.
\* A call of llm.generate that raises makes query raise.
query(relevant_chunks, question, outcome, sources) ==
    IF relevant_chunks = <<>>
    THEN [ret |-> [raised |-> FALSE, answer |-> Sentinel, sources |-> <<>>],
          generated |-> <<>>]
    ELSE LET context == Join([i \in 1..Len(relevant_chunks) |->
                                 Excerpt(relevant_chunks[i])], <<"\n", "\n">>)
             call == [context |-> context, question |-> question]
         IN IF outcome.raised
            THEN [ret |-> [raised |-> TRUE, answer |-> <<>>, sources |-> <<>>],
                  generated |-> <<call>>]
            ELSE [ret |-> [raised |-> FALSE, answer |-> outcome.response,
                           sources |-> sources],
                  generated |-> <<call>>]

---------------------------------------------------------------------------
(* ResearchEngine: one action per method. eng_last records the call:       *)
(* `generated` lists the calls of llm.generate it made and `was`, for a    *)
(* call that writes, is the engine state as the call found it.             *)

QuestionEmpty == <<" ">>
QuestionA == <<"a">>
QuestionBc == <<"B", " ", "c">>
Questions == {QuestionEmpty, QuestionA, QuestionBc}

\* top_k as given to query; None is the default of the signature.
QueryTopKArgs == {None} \cup {Some(k) : k \in -1..MaxTopK}

EngStore == [documents |-> eng_documents, chunks |-> eng_chunks]

EngCall(op, arg, ret, generated) ==
    [op |-> op, arg |-> arg, ret |-> ret, generated |-> generated,
     was |-> IF op \in {"ingest_document", "delete_document"}
             THEN EngStore ELSE [documents |-> EmptyMap, chunks |-> <<>>]]

EngLeaves(r) ==
    /\ eng_documents' = r.st.documents
    /\ eng_chunks' = r.st.chunks
    /\ UNCHANGED <<memvars, chunkvars, ragvars, loopvars>>

IngestDocument ==
    /\ eng_uuids < MaxIngests
    /\ \E content \in EngContents, source \in Sources :
           LET r == ingest_document(EngStore, content, source, Uuid(eng_uuids + 1))
           IN /\ EngLeaves(r)
              /\ eng_uuids' = eng_uuids + 1
              /\ eng_last' = EngCall("ingest_document",
                                     [content |-> content, source |-> source],
                                     r.ret, <<>>)

DeleteDocument ==
    \E doc_id \in {Uuid(n) : n \in 1..eng_uuids} \cup {UnknownDoc} :
        LET r == delete_document(EngStore, doc_id)
        IN /\ EngLeaves(r)
           /\ eng_last' = EngCall("delete_document", [doc_id |-> doc_id], r.ret, <<>>)
           /\ UNCHANGED eng_uuids

ListDocuments ==
    /\ eng_last' = EngCall("list_documents", None, list_documents(EngStore), <<>>)
    /\ UNCHANGED <<eng_documents, eng_chunks, eng_uuids>>
    /\ UNCHANGED <<memvars, chunkvars, ragvars, loopvars>>

Query ==
    \E question \in Questions :
        LET hits == Hits(eng_chunks, question)
        IN \E arg \in QueryTopKArgs :
               LET top_k == IF arg = None THEN default_query_top_k ELSE Val(arg)
                   relevant_chunks ==
                       retrieve_relevant_scored(EngStore, hits, top_k,
                                                Cardinality(Words(question)))
               IN \E outcome \in IF relevant_chunks = <<>>
                                  THEN {CHOOSE o \in GenOutcomes : TRUE}
                                  ELSE GenOutcomes,
                     sources \in SourceLists(relevant_chunks) :
                      LET r == query(relevant_chunks, question, outcome, sources)
                      IN /\ eng_last' = EngCall("query",
                                                [question |-> question, top_k |-> top_k],
                                                r.ret, r.generated)
                         /\ UNCHANGED <<eng_documents, eng_chunks, eng_uuids>>
                         /\ UNCHANGED <<memvars, chunkvars, ragvars, loopvars>>

\* The engine after construction.
EngInit ==
    /\ eng_documents = EmptyMap
    /\ eng_chunks = <<>>
    /\ eng_uuids = 0
    /\ eng_last = [op |-> "init", arg |-> None, ret |-> None, generated |-> <<>>,
                   was |-> [documents |-> EmptyMap, chunks |-> <<>>]]

---------------------------------------------------------------------------
(* The request handlers on the event loop.                                 *)
(* Every route is an `async def` and nothing in the program starts a       *)
(* thread or uses an executor: the handlers are coroutines of one event    *)
(* loop. A handler that has been resumed runs, statement after statement,  *)
(* until it awaits or returns, and only then is another handler resumed.   *)
(* The methods of the three stores contain no await; a chat request        *)
(* awaits the generation between its two add_message calls.                *)
(* Here the methods are taken one statement at a time, so that the states  *)
(* in the middle of a mutation exist and a read could land on one.         *)

Handlers == {"h1", "h2"}

\* A handler: the request it serves, the statement it is at, its local
\* variables, and what is left of the loop it is in.
Handler(kind, pc, locals, todo) ==
    [kind |-> kind, pc |-> pc, locals |-> locals, todo |-> todo]

Waiting == Handler("none", "idle", None, None)

\* Faulty variant of MayRun: a handler is resumed whenever it is ready, as
\* a thread would be.
MayRunAnytime(h) == TRUE

\* The event loop resumes a handler when no handler is between two
\* statements, and goes on with the one that is.
MayRun(h) == running = None \/ running = Some(h)

\* Handler h goes on as `next`; it keeps the event loop unless it awaits
\* or returns.
Goes(h, next, yields) ==
    /\ task' = [task EXCEPT ![h] = next]
    /\ running' = IF yields THEN None ELSE Some(h)

At(h, pc) == [task[h] EXCEPT !.pc = pc]

LoopFixed ==
    UNCHANGED <<max_history, appended, last, chunkvars, rag_last,
                added_under, deleted_docs, latest_add, eng_last, focus>>
OnMemory ==
    /\ LoopFixed
    /\ UNCHANGED <<rag_chunks, rag_index, eng_documents, eng_chunks, eng_uuids>>
OnRag ==
    /\ LoopFixed
    /\ UNCHANGED <<sessions, metadata, next_id, eng_documents, eng_chunks,
                   eng_uuids>>
OnEngine ==
    /\ LoopFixed
    /\ UNCHANGED <<sessions, metadata, next_id, rag_chunks, rag_index>>

\* What a read of the memory has before it: the length of the log of the
\* session and the message_count of its metadata (0 and 0 for no session).
MemView(session_id) ==
    [length |-> IF session_id \in DOMAIN sessions
                THEN Len(sessions[session_id]) ELSE 0,
     message_count |-> IF session_id \in DOMAIN metadata
                       THEN metadata[session_id].message_count ELSE 0]

\* The statements at which a handler is not inside a method of a store:
\* before the first statement of its request, and at its await.
AwaitPcs == {"generate", "answer"}
RestPcs ==
    {"idle", "create", "get_history", "clear_log", "add_store", "delete_scan",
     "clear_chunks", "search", "register", "delete_entry", "retrieve"}
    \cup AwaitPcs

\* Handler h reads: what it has before it, whether another handler is
\* inside a method, and whether another handler is at its await.
Sees(h, reader, view) ==
    seen' = [reader |-> reader, view |-> view,
             amid |-> \E g \in Handlers \ {h} : task[g].pc \notin RestPcs,
             awaited |-> \E g \in Handlers \ {h} : task[g].pc \in AwaitPcs]

\* Agent.process, "Create or use existing session" (the id is given).
ChatCreate ==
    \E h \in Handlers :
        /\ MayRun(h)
        /\ task[h].pc = "create"
        /\ next_id < MaxMessages
        /\ LET session_id == task[h].locals.session_id
               st == IF session_id \notin DOMAIN sessions
                     THEN create_session(Store, session_id).st
                     ELSE Store
           IN /\ sessions' = st.sessions
              /\ metadata' = st.metadata
        /\ Goes(h, At(h, "append"), FALSE)
        /\ UNCHANGED <<next_id, seen>>
        /\ OnMemory

\* add_message up to the append.
AddMessageAppend ==
    \E h \in Handlers :
        /\ MayRun(h)
        /\ task[h].pc = "append"
        /\ LET session_id == task[h].locals.session_id
               st1 == IF session_id \notin DOMAIN sessions
                      THEN create_session(Store, session_id).st
                      ELSE Store
               msg == Message(task[h].locals.role, task[h].locals.content,
                              next_id + 1)
           IN /\ sessions' = Put(st1.sessions, session_id,
                                 Append(st1.sessions[session_id], msg))
              /\ metadata' = st1.metadata
        /\ next_id' = next_id + 1
        /\ Goes(h, At(h, "trim"), FALSE)
        /\ UNCHANGED seen
        /\ OnMemory

\* add_message, "Trim history if needed".
AddMessageTrim ==
    \E h \in Handlers :
        /\ MayRun(h)
        /\ task[h].pc = "trim"
        /\ LET session_id == task[h].locals.session_id
           IN sessions' = Put(sessions, session_id,
                              Trim(sessions[session_id], max_history))
        /\ Goes(h, At(h, "count"), FALSE)
        /\ UNCHANGED <<metadata, next_id, seen>>
        /\ OnMemory

\* add_message, "Update metadata", and the return: to get_context after
\* the user message, out of the request after the assistant's.
AddMessageCount ==
    \E h \in Handlers :
        /\ MayRun(h)
        /\ task[h].pc = "count"
        /\ LET session_id == task[h].locals.session_id
           IN metadata' =
                  IF session_id \in DOMAIN metadata
                  THEN Put(metadata, session_id,
                           [metadata[session_id] EXCEPT
                                !.message_count = Len(sessions[session_id])])
                  ELSE metadata
        /\ IF task[h].locals.role = RoleUser
           THEN Goes(h, At(h, "context"), FALSE)
           ELSE Goes(h, Waiting, TRUE)
        /\ UNCHANGED <<sessions, next_id, seen>>
        /\ OnMemory

\* Agent.process reads the context, then awaits the module's handler.
ChatContext ==
    \E h \in Handlers :
        /\ MayRun(h)
        /\ task[h].pc = "context"
        /\ Sees(h, "get_context", MemView(task[h].locals.session_id))
        /\ Goes(h, At(h, "generate"), TRUE)
        /\ UNCHANGED <<sessions, metadata, next_id>>
        /\ OnMemory

\* The awaited handler has returned or raised: either way there is a
\* response, which Agent.process goes on to store.
ChatResume ==
    \E h \in Handlers :
        /\ MayRun(h)
        /\ task[h].pc = "generate"
        /\ next_id < MaxMessages
        /\ Goes(h, [task[h] EXCEPT !.pc = "append",
                                   !.locals.role = RoleAi,
                                   !.locals.content = <<"o", " ", "k">>],
                FALSE)
        /\ UNCHANGED <<sessions, metadata, next_id, seen>>
        /\ OnMemory

\* GET /history/{session_id}
ReadHistory ==
    \E h \in Handlers :
        /\ MayRun(h)
        /\ task[h].pc = "get_history"
        /\ Sees(h, "get_history", MemView(task[h].locals.session_id))
        /\ Goes(h, Waiting, TRUE)
        /\ UNCHANGED <<sessions, metadata, next_id>>
        /\ OnMemory

\* clear_session: the log is emptied ...
ClearSessionLog ==
    \E h \in Handlers :
        /\ MayRun(h)
        /\ task[h].pc = "clear_log"
        /\ LET session_id == task[h].locals.session_id
           IN IF session_id \in DOMAIN sessions
              THEN /\ sessions' = Put(sessions, session_id, <<>>)
                   /\ Goes(h, At(h, "clear_count"), FALSE)
              ELSE /\ UNCHANGED sessions
                   /\ Goes(h, Waiting, TRUE)
        /\ UNCHANGED <<metadata, next_id, seen>>
        /\ OnMemory

\* ... and then its message_count is set to 0.
ClearSessionCount ==
    \E h \in Handlers :
        /\ MayRun(h)
        /\ task[h].pc = "clear_count"
        /\ LET session_id == task[h].locals.session_id
           IN metadata' =
                  IF session_id \in DOMAIN metadata
                  THEN Put(metadata, session_id,
                           [metadata[session_id] EXCEPT !.message_count = 0])
                  ELSE metadata
        /\ Goes(h, Waiting, TRUE)
        /\ UNCHANGED <<sessions, next_id, seen>>
        /\ OnMemory

Listing(postings) == {postings[i] : i \in 1..Len(postings)}

\* What a read of the RAG store has before it: how many chunks are stored,
\* the (chunk, word) pairs of a stored chunk that a word of its content
\* does not list, and the (word, chunk) pairs of a word that lists a chunk
\* that is not stored.
RagView ==
    [chunks |-> Cardinality(DOMAIN rag_chunks),
     unlisted |-> UNION {{<<c, w>> : w \in {x \in Words(rag_chunks[c].content) :
                                               \/ x \notin DOMAIN rag_index
                                               \/ c \notin Listing(rag_index[x])}} :
                             c \in DOMAIN rag_chunks},
     unstored |-> UNION {{<<w, c>> : c \in Listing(rag_index[w])
                                          \ DOMAIN rag_chunks} :
                             w \in DOMAIN rag_index}]

\* add_chunk up to the storing of the record; the words are still to post.
AddChunkStore ==
    \E h \in Handlers :
        /\ MayRun(h)
        /\ task[h].pc = "add_store"
        /\ LET content == task[h].locals.content
               chunk_id == md5_16(content)
               words == Words(content)
           IN /\ rag_chunks' = Put(rag_chunks, chunk_id,
                                   [content |-> content,
                                    doc_id |-> task[h].locals.doc_id,
                                    metadata |->
                                        OrEmptyDict(MetadataArg(
                                            task[h].locals.doc_id))])
              /\ IF words = {}
                 THEN Goes(h, Waiting, TRUE)
                 ELSE Goes(h, [task[h] EXCEPT !.pc = "add_post",
                                              !.todo = words], FALSE)
        /\ UNCHANGED <<rag_index, seen>>
        /\ OnRag

\* add_chunk, one turn of `for word in words`.
AddChunkPost ==
    \E h \in Handlers :
        /\ MayRun(h)
        /\ task[h].pc = "add_post"
        /\ \E word \in task[h].todo :
               /\ rag_index' = Put(rag_index, word,
                                   Post(IF word \in DOMAIN rag_index
                                        THEN rag_index[word] ELSE <<>>,
                                        md5_16(task[h].locals.content)))
               /\ IF task[h].todo = {word}
                  THEN Goes(h, Waiting, TRUE)
                  ELSE Goes(h, [task[h] EXCEPT !.todo = @ \ {word}], FALSE)
        /\ UNCHANGED <<rag_chunks, seen>>
        /\ OnRag

\* delete_by_doc: the list to_delete is made.
DeleteByDocScan ==
    \E h \in Handlers :
        /\ MayRun(h)
        /\ task[h].pc = "delete_scan"
        /\ LET to_delete == {c \in DOMAIN rag_chunks :
                                rag_chunks[c].doc_id = task[h].locals.doc_id}
           IN IF to_delete = {}
              THEN Goes(h, Waiting, TRUE)
              ELSE Goes(h, [task[h] EXCEPT !.pc = "delete_pop",
                                           !.todo = to_delete], FALSE)
        /\ UNCHANGED <<rag_chunks, rag_index, seen>>
        /\ OnRag

\* delete_by_doc, one turn of `for chunk_id in to_delete`: the pop. (The
\* turns are taken in any order; pop raises KeyError, and the handler ends,
\* if another handler has removed the chunk in between.)
DeleteByDocPop ==
    \E h \in Handlers :
        /\ MayRun(h)
        /\ task[h].pc = "delete_pop"
        /\ \E chunk_id \in task[h].todo :
               IF chunk_id \in DOMAIN rag_chunks
               THEN /\ rag_chunks' = Remove(rag_chunks, chunk_id)
                    /\ Goes(h, [task[h] EXCEPT
                                   !.pc = "delete_unpost",
                                   !.todo = @ \ {chunk_id},
                                   !.locals.chunk_id = chunk_id,
                                   !.locals.content =
                                       rag_chunks[chunk_id].content], FALSE)
               ELSE /\ UNCHANGED rag_chunks
                    /\ Goes(h, Waiting, TRUE)
        /\ UNCHANGED <<rag_index, seen>>
        /\ OnRag

\* ... and the removal of the popped chunk from the postings of its words.
DeleteByDocUnpost ==
    \E h \in Handlers :
        /\ MayRun(h)
        /\ task[h].pc = "delete_unpost"
        /\ LET words == Words(task[h].locals.content)
           IN rag_index' =
                  [w \in DOMAIN rag_index |->
                      IF w \in words
                      THEN RemoveFirst(rag_index[w], task[h].locals.chunk_id)
                      ELSE rag_index[w]]
        /\ IF task[h].todo = {}
           THEN Goes(h, Waiting, TRUE)
           ELSE Goes(h, At(h, "delete_pop"), FALSE)
        /\ UNCHANGED <<rag_chunks, seen>>
        /\ OnRag

\* clear: self._chunks.clear() ...
ClearChunks ==
    \E h \in Handlers :
        /\ MayRun(h)
        /\ task[h].pc = "clear_chunks"
        /\ rag_chunks' = EmptyMap
        /\ Goes(h, At(h, "clear_index"), FALSE)
        /\ UNCHANGED <<rag_index, seen>>
        /\ OnRag

\* ... and self._index.clear()
ClearIndex ==
    \E h \in Handlers :
        /\ MayRun(h)
        /\ task[h].pc = "clear_index"
        /\ rag_index' = EmptyMap
        /\ Goes(h, Waiting, TRUE)
        /\ UNCHANGED <<rag_chunks, seen>>
        /\ OnRag

\* search
ReadSearch ==
    \E h \in Handlers :
        /\ MayRun(h)
        /\ task[h].pc = "search"
        /\ Sees(h, "search", RagView)
        /\ Goes(h, Waiting, TRUE)
        /\ UNCHANGED <<rag_chunks, rag_index>>
        /\ OnRag

\* What a read of the engine has before it: how many chunks are in the
\* list, the documents that do not have chunk_count chunks in it, and the
\* doc ids of its chunks that are of no document.
EngView ==
    [chunks |-> Len(eng_chunks),
     partial |-> {d \in DOMAIN eng_documents :
                     eng_documents[d].chunk_count
                         # Len(SelectSeq(eng_chunks, LAMBDA c : c.doc_id = d))},
     orphans |-> {eng_chunks[i].doc_id : i \in 1..Len(eng_chunks)}
                 \ DOMAIN eng_documents]

\* ingest_document up to "Store document"; the chunks are still to append.
IngestRegister ==
    \E h \in Handlers :
        /\ MayRun(h)
        /\ task[h].pc = "register"
        /\ eng_uuids < MaxIngests
        /\ LET doc_id == Uuid(eng_uuids + 1)
               chunks == chunk_text(task[h].locals.content, default_chunk_size,
                                    default_overlap).chunks
           IN /\ eng_documents' =
                     Put(eng_documents, doc_id,
                         [source |-> task[h].locals.source,
                          chunk_count |-> Len(chunks)])
              /\ IF Len(chunks) = 0
                 THEN Goes(h, Waiting, TRUE)
                 ELSE Goes(h, [task[h] EXCEPT
                                  !.pc = "store_chunk",
                                  !.locals.doc_id = doc_id,
                                  !.locals.chunk_index = 0,
                                  !.todo = chunks], FALSE)
        /\ eng_uuids' = eng_uuids + 1
        /\ UNCHANGED <<eng_chunks, seen>>
        /\ OnEngine

\* ingest_document, one turn of `for i, chunk in enumerate(chunks)`.
IngestStoreChunk ==
    \E h \in Handlers :
        /\ MayRun(h)
        /\ task[h].pc = "store_chunk"
        /\ eng_chunks' = Append(eng_chunks,
                                [doc_id |-> task[h].locals.doc_id,
                                 chunk_index |-> task[h].locals.chunk_index,
                                 content |-> Head(task[h].todo),
                                 source |-> task[h].locals.source])
        /\ IF Len(task[h].todo) = 1
           THEN Goes(h, Waiting, TRUE)
           ELSE Goes(h, [task[h] EXCEPT !.todo = Tail(@),
                                        !.locals.chunk_index = @ + 1], FALSE)
        /\ UNCHANGED <<eng_documents, eng_uuids, seen>>
        /\ OnEngine

\* delete_document: del self._documents[doc_id] ...
DeleteDocumentEntry ==
    \E h \in Handlers :
        /\ MayRun(h)
        /\ task[h].pc = "delete_entry"
        /\ LET doc_id == task[h].locals.doc_id
           IN IF doc_id \notin DOMAIN eng_documents
              THEN /\ UNCHANGED eng_documents
                   /\ Goes(h, Waiting, TRUE)
              ELSE /\ eng_documents' = Remove(eng_documents, doc_id)
                   /\ Goes(h, At(h, "delete_chunks"), FALSE)
        /\ UNCHANGED <<eng_chunks, eng_uuids, seen>>
        /\ OnEngine

\* ... and the list of chunks is replaced by the chunks of the others.
DeleteDocumentChunks ==
    \E h \in Handlers :
        /\ MayRun(h)
        /\ task[h].pc = "delete_chunks"
        /\ eng_chunks' = SelectSeq(eng_chunks,
                                   LAMBDA c : c.doc_id # task[h].locals.doc_id)
        /\ Goes(h, Waiting, TRUE)
        /\ UNCHANGED <<eng_documents, eng_uuids, seen>>
        /\ OnEngine

\* query: the retrieval, after which the generation is awaited.
ReadRetrieve ==
    \E h \in Handlers :
        /\ MayRun(h)
        /\ task[h].pc = "retrieve"
        /\ Sees(h, "retrieve", EngView)
        /\ Goes(h, At(h, "answer"), TRUE)
        /\ UNCHANGED <<eng_documents, eng_chunks, eng_uuids>>
        /\ OnEngine

\* The generation has returned, or raised; query reads no more of the lists.
QueryAnswer ==
    \E h \in Handlers :
        /\ MayRun(h)
        /\ task[h].pc = "answer"
        /\ Goes(h, Waiting, TRUE)
        /\ UNCHANGED <<eng_documents, eng_chunks, eng_uuids, seen>>
        /\ OnEngine

\* The requests a handler can be given, by the store they go to. The local
\* variables a request has not assigned yet hold a value of their type.
MemoryRequests ==
    {Handler(r[1], r[2],
             [session_id |-> "s1", role |-> RoleUser, content |-> <<>>], None) :
         r \in {<<"chat", "create">>, <<"history", "get_history">>,
                <<"clear", "clear_log">>}}

RagRequests ==
    {Handler("add_chunk", "add_store",
             [content |-> c, doc_id |-> d, chunk_id |-> ""], {}) :
         c \in {ContentAb, ContentBc}, d \in DocIds}
    \cup {Handler("delete_by_doc", "delete_scan",
                  [content |-> <<>>, doc_id |-> d, chunk_id |-> ""], {}) :
              d \in DocIds}
    \cup {Handler(r[1], r[2],
                  [content |-> <<>>, doc_id |-> "d1", chunk_id |-> ""], {}) :
              r \in {<<"clear", "clear_chunks">>, <<"search", "search">>}}

EngineRequests ==
    {Handler("ingest", "register",
             [content |-> c, source |-> SourceDefault, doc_id |-> UnknownDoc,
              chunk_index |-> 0], <<>>) : c \in EngContents}
    \cup {Handler("delete_document", "delete_entry",
                  [content |-> <<>>, source |-> SourceDefault, doc_id |-> d,
                   chunk_index |-> 0], <<>>) :
              d \in {Uuid(n) : n \in 0..MaxIngests}}
    \cup {Handler("query", "retrieve",
                  [content |-> <<>>, source |-> SourceDefault,
                   doc_id |-> UnknownDoc, chunk_index |-> 0], <<>>)}

Requests ==
    CASE focus = "memory" -> MemoryRequests
      [] focus = "rag" -> RagRequests
      [] focus = "engine" -> EngineRequests
      [] OTHER -> {}

\* A request arrives: a handler is made for it, to be resumed by the loop.
Submit ==
    \E h \in Handlers, r \in Requests :
        /\ task[h].pc = "idle"
        /\ task' = [task EXCEPT ![h] = r]
        /\ UNCHANGED <<running, seen, sessions, metadata, next_id, rag_chunks,
                       rag_index, eng_documents, eng_chunks, eng_uuids>>
        /\ LoopFixed

NotSeen == [reader |-> "none", view |-> None, amid |-> FALSE, awaited |-> FALSE]

\* No handler, as in the specifications of one store alone.
LoopIdle ==
    /\ task = [h \in Handlers |-> Waiting]
    /\ running = None
    /\ seen = NotSeen
    /\ focus = "none"

---------------------------------------------------------------------------
(* The memory after construction, and the specification of its calls.      *)

MemInit ==
    /\ \E arg \in MaxHistoryArgs :
           max_history = OrElse(arg, max_conversation_history)
    /\ sessions = EmptyMap
    /\ metadata = EmptyMap
    /\ next_id = 0
    /\ appended = [s \in AllIds |-> <<>>]
    /\ last = Call("init", None, None, None, None)

ChunkIdle ==
    /\ text = <<>>
    /\ chunk_size = 1
    /\ overlap = 0
    /\ chunked = None

Init == MemInit /\ ChunkIdle /\ RagInit /\ EngInit /\ LoopIdle

Next ==
    \/ CreateSession
    \/ AddMessage
    \/ GetHistory
    \/ GetContext
    \/ ClearSession
    \/ DeleteSession
    \/ GetSessionInfo
    \/ ListSessions

Spec == Init /\ [][Next]_vars

(* The chunker applied to every text, chunk_size and overlap of the bounds. *)

TextChars == {"a", "b", " "}
Texts == UNION {[1..n -> TextChars] : n \in 0..MaxTextLen}

InitChunk ==
    /\ MemInit
    /\ max_history = max_conversation_history
    /\ text \in Texts
    /\ chunk_size \in 1..MaxChunkSize
    /\ overlap \in -1..MaxOverlap
    /\ chunked = None
    /\ RagInit
    /\ EngInit
    /\ LoopIdle

NextChunk == ChunkText

SpecChunk == InitChunk /\ [][NextChunk]_vars

(* The store: every interleaving of its methods on the contents, doc ids,  *)
(* queries and top_k of the bounds.                                        *)

InitRag ==
    /\ MemInit
    /\ max_history = max_conversation_history
    /\ ChunkIdle
    /\ RagInit
    /\ EngInit
    /\ LoopIdle

NextRag ==
    \/ AddChunk
    \/ Search
    \/ DeleteByDoc
    \/ Clear
    \/ ChunkCount

SpecRag == InitRag /\ [][NextRag]_vars

(* The engine: every interleaving of its methods on the contents, sources, *)
(* questions and top_k of the bounds.                                      *)

InitEngine ==
    /\ MemInit
    /\ max_history = max_conversation_history
    /\ ChunkIdle
    /\ RagInit
    /\ EngInit
    /\ LoopIdle

NextEngine ==
    \/ IngestDocument
    \/ DeleteDocument
    \/ ListDocuments
    \/ Query

SpecEngine == InitEngine /\ [][NextEngine]_vars

---------------------------------------------------------------------------
(* The three stores under concurrent requests; a behaviour is about one    *)
(* store, chosen at the start.                                             *)

InitLoop ==
    /\ MemInit
    /\ ChunkIdle
    /\ RagInit
    /\ EngInit
    /\ task = [h \in Handlers |-> Waiting]
    /\ running = None
    /\ seen = NotSeen
    /\ focus \in {"memory", "rag", "engine"}

NextLoop ==
    \/ Submit
    \/ ChatCreate
    \/ AddMessageAppend
    \/ AddMessageTrim
    \/ AddMessageCount
    \/ ChatContext
    \/ ChatResume
    \/ ReadHistory
    \/ ClearSessionLog
    \/ ClearSessionCount
    \/ AddChunkStore
    \/ AddChunkPost
    \/ DeleteByDocScan
    \/ DeleteByDocPop
    \/ DeleteByDocUnpost
    \/ ClearChunks
    \/ ClearIndex
    \/ ReadSearch
    \/ IngestRegister
    \/ IngestStoreChunk
    \/ DeleteDocumentEntry
    \/ DeleteDocumentChunks
    \/ ReadRetrieve
    \/ QueryAnswer

SpecLoop == InitLoop /\ [][NextLoop]_vars

---------------------------------------------------------------------------
(* Agent.process. It runs in two stretches, one up to its await of the     *)
(* module handler and one after it; the calls of other handlers on the     *)
(* memory come before, between or after them. The module handlers all      *)
(* return what llm.generate returns, a dict with a "response", or raise.   *)

RoleAssistant == <<"a", "s", "s", "i", "s", "t", "a", "n", "t">>

\* The message of a chat request.
ContentHi == <<"h", "i">>

\* The reply stored and returned when the module handler raises.
FallbackReply ==
    <<"I", " ", "e", "n", "c", "o", "u", "n", "t", "e", "r", "e", "d", " ",
      "a", "n", " ", "e", "r", "r", "o", "r", " ", "p", "r", "o", "c", "e",
      "s", "s", "i", "n", "g", " ", "y", "o", "u", "r", " ", "r", "e", "q",
      "u", "e", "s", "t", ".", " ", "P", "l", "e", "a", "s", "e", " ", "t",
      "r", "y", " ", "a", "g", "a", "i", "n", ".">>

\* The local variables of a process call: `given` is the session_id
\* argument; `prior` is the log that the call found under the id it uses
\* (None when the id was not live),
\* `issued` is the log of the session when the module handler is
\* awaited, `found` what the second stretch finds of the session (the
\* length of its log, None when it is not live), `prev` the call that came
\* last before the second stretch if it deleted or cleared the session, and
\* `left` the log when the call returns.
ProcessLocals(given, session_id, prior, message, message_id, context, issued) ==
    [given |-> given, session_id |-> session_id, prior |-> prior,
     message |-> message,
     message_id |-> message_id, context |-> context, issued |-> issued,
     found |-> None, prev |-> "none", left |-> <<>>, raised |-> FALSE,
     reply_id |-> 0,
     ret |-> [response |-> <<>>, session_id |-> session_id,
              message_id |-> message_id]]

\* Faulty variant of process_begin: the session is created anew even if
\* the id is live.
process_begin_creating(st, given, gen_id, message, serial, mh) ==
    LET session_id == IF given = None THEN gen_id ELSE Val(given)
        st0 == create_session(st, session_id).st
        a == add_message(st0, session_id, Message(RoleUser, message, serial), mh)
        c == get_context(a.st, session_id, None)
    IN [session_id |-> session_id, message_id |-> a.ret, context |-> c.ret,
        st |-> c.st]

\* process up to the await: the session is created or used, the user
\* message stored, the context read. gen_id is the id that
\* generate_session_id() gives if it is called.
process_begin(st, given, gen_id, message, serial, mh) ==
    LET session_id == IF given = None THEN gen_id ELSE Val(given)
        st0 == IF given = None THEN create_session(st, gen_id).st
               ELSE IF session_id \notin DOMAIN st.sessions
                    THEN create_session(st, session_id).st
                    ELSE st
        a == add_message(st0, session_id, Message(RoleUser, message, serial), mh)
        c == get_context(a.st, session_id, None)
    IN [session_id |-> session_id, message_id |-> a.ret, context |-> c.ret,
        st |-> c.st]

\* Faulty variant of Reply: nothing is stored for a handler that raised.
ReplyUnlessRaised(st, session_id, outcome, msg, mh) ==
    IF outcome.raised THEN st ELSE add_message(st, session_id, msg, mh).st

\* "Store assistant response"
Reply(st, session_id, outcome, msg, mh) ==
    add_message(st, session_id, msg, mh).st

\* Faulty variant of process_end: the reply is stored only if the session
\* is live still.
process_end_if_live(st, locals, outcome, serial, mh) ==
    LET response == IF outcome.raised THEN FallbackReply ELSE outcome.response
        msg == Message(RoleAssistant, response, serial)
    IN [ret |-> [response |-> response, session_id |-> locals.session_id,
                 message_id |-> locals.message_id],
        msg |-> msg,
        st |-> IF locals.session_id \in DOMAIN st.sessions
               THEN Reply(st, locals.session_id, outcome, msg, mh)
               ELSE st]

\* process from the await on: the response of the handler, or the fallback
\* if it raised, is stored and returned.
process_end(st, locals, outcome, serial, mh) ==
    LET response == IF outcome.raised THEN FallbackReply ELSE outcome.response
        msg == Message(RoleAssistant, response, serial)
    IN [ret |-> [response |-> response, session_id |-> locals.session_id,
                 message_id |-> locals.message_id],
        msg |-> msg,
        st |-> Reply(st, locals.session_id, outcome, msg, mh)]

\* The process calls that are at their await.
Suspended == {h \in Handlers : task[h].pc = "generate"}

ProcessBegin ==
    \E h \in Handlers, given \in {None} \cup {Some(s) : s \in SessionIds} :
    \E gen_id \in IF given = None THEN GenIds \ DOMAIN sessions ELSE {"g1"} :
        /\ task[h].pc \in {"idle", "done"}
        /\ next_id + Cardinality(Suspended) + 2 <= 2 * MaxProcessCalls
        /\ LET r == process_begin(Store, given, gen_id, ContentHi, next_id + 1,
                                  max_history)
               msg == Message(RoleUser, ContentHi, next_id + 1)
               used == r.session_id \in DOMAIN sessions /\ given # None
           IN /\ sessions' = r.st.sessions
              /\ metadata' = r.st.metadata
              /\ appended' = [appended EXCEPT ![r.session_id] =
                                 Append(IF used THEN @ ELSE <<>>, msg)]
              /\ last' = Call("process", Some(r.session_id), given,
                              r.message_id, Was(r.session_id))
              /\ task' = [task EXCEPT ![h] =
                             Handler("chat", "generate",
                                     ProcessLocals(given, r.session_id,
                                                   IF r.session_id \in DOMAIN sessions
                                                   THEN Some(sessions[r.session_id])
                                                   ELSE None,
                                                   ContentHi,
                                                   r.message_id, r.context,
                                                   r.st.sessions[r.session_id]),
                                     None)]
        /\ next_id' = next_id + 1
        /\ UNCHANGED <<max_history, running, seen, focus, chunkvars, ragvars,
                       engvars>>

ProcessEnd ==
    \E h \in Handlers, outcome \in GenOutcomes :
        /\ task[h].pc = "generate"
        /\ LET locals == task[h].locals
               r == process_end(Store, locals, outcome, next_id + 1, max_history)
           IN /\ sessions' = r.st.sessions
              /\ metadata' = r.st.metadata
              /\ appended' = [appended EXCEPT ![locals.session_id] =
                                 Append(@, r.msg)]
              /\ last' = Call("add_message", Some(locals.session_id),
                              [role |-> RoleAssistant, content |-> r.msg.content],
                              r.msg.message_id, Was(locals.session_id))
              /\ task' = [task EXCEPT ![h] =
                             Handler("chat", "done",
                                     [locals EXCEPT
                                         !.found = Was(locals.session_id),
                                         !.prev =
                                             IF /\ last.sid = Some(locals.session_id)
                                                /\ last.op \in {"delete_session",
                                                               "clear_session"}
                                                /\ last.ret = TRUE
                                             THEN last.op ELSE "other",
                                         !.left =
                                             IF locals.session_id
                                                    \in DOMAIN r.st.sessions
                                             THEN r.st.sessions[locals.session_id]
                                             ELSE <<>>,
                                         !.raised = outcome.raised,
                                         !.reply_id = r.msg.message_id,
                                         !.ret = r.ret],
                                     None)]
        /\ next_id' = next_id + 1
        /\ UNCHANGED <<max_history, running, seen, focus, chunkvars, ragvars,
                       engvars>>

InitAgent ==
    /\ MemInit
    /\ ChunkIdle
    /\ RagInit
    /\ EngInit
    /\ task = [h \in Handlers |-> Waiting]
    /\ running = None
    /\ seen = NotSeen
    /\ focus = "agent"

NextAgent ==
    \/ ProcessBegin
    \/ ProcessEnd
    \/ ClearSession
    \/ DeleteSession

SpecAgent == InitAgent /\ [][NextAgent]_vars

---------------------------------------------------------------------------
(* The two stores that are read by methods of their own: a behaviour is    *)
(* the calls on the memory, or the calls on the RAG store.                 *)

InitStores ==
    /\ MemInit
    /\ ChunkIdle
    /\ RagInit
    /\ EngInit
    /\ task = [h \in Handlers |-> Waiting]
    /\ running = None
    /\ seen = NotSeen
    /\ focus \in {"memory", "rag"}
    /\ focus = "rag" => max_history = max_conversation_history

MemoryCall == focus = "memory" /\ Next

RagStoreCall == focus = "rag" /\ NextRag

NextStores ==
    \/ MemoryCall
    \/ RagStoreCall

SpecStores == InitStores /\ [][NextStores]_vars

---------------------------------------------------------------------------
(* The two retrieval paths side by side: RAGStore.search over the index    *)
(* and ResearchEngine._retrieve_relevant over the list, on stores that     *)
(* were given the same contents, each content once.                        *)

\* The contents that both stores can hold as one chunk: ingest_document
\* stores the windows of _chunk_text, which are the words of the text
\* joined by single spaces.
PathContents ==
    {c \in RagContents \cap EngContents :
        chunk_text(c, default_chunk_size, default_overlap).chunks = <<c>>}

PathQueries == RagQueries \cup Questions

HeldContents == {rag_chunks[c].content : c \in DOMAIN rag_chunks}

\* One content, that neither store holds, is given to both.
AddToBoth ==
    /\ eng_uuids < MaxIngests
    /\ \E content \in PathContents \ HeldContents,
          doc_id \in DocIds, source \in Sources :
           LET meta == MetadataArg(doc_id)
               r == add_chunk(RagStore, content, doc_id, meta)
               e == ingest_document(EngStore, content, source, Uuid(eng_uuids + 1))
           IN /\ rag_chunks' = r.st.chunks
              /\ rag_index' = r.st.index
              /\ rag_last' = RagCall("add_chunk",
                                     [content |-> content, doc_id |-> doc_id], r.ret)
              /\ added_under' = [added_under EXCEPT ![doc_id] = @ \cup {content}]
              /\ latest_add' = [latest_add EXCEPT ![content] =
                                    Some([doc_id |-> doc_id,
                                          metadata |-> OrEmptyDict(meta)])]
              /\ eng_documents' = e.st.documents
              /\ eng_chunks' = e.st.chunks
              /\ eng_uuids' = eng_uuids + 1
              /\ eng_last' = EngCall("ingest_document",
                                     [content |-> content, source |-> source],
                                     e.ret, <<>>)
              /\ UNCHANGED deleted_docs
              /\ UNCHANGED <<memvars, chunkvars, loopvars>>

\* The score that the loop of _retrieve_relevant gives the chunk of the list
\* that has this content: <<hits, number of question words>>.
ScoredAs(st, question, content) ==
    LET hits == Hits(st.chunks, question)
        i == CHOOSE j \in 1..Len(st.chunks) : st.chunks[j].content = content
    IN <<hits[i], Cardinality(Words(question))>>

\* One query is given to both paths, each with a top_k, its own default
\* included, that is at least the number of chunks.
RetrieveBoth ==
    \E asked \in PathQueries, arg \in TopKArgs, qarg \in QueryTopKArgs :
        \E order \in Orders(Words(asked)) :
            LET top_k == IF arg = None THEN default_top_k ELSE Val(arg)
                qtop_k == IF qarg = None THEN default_query_top_k ELSE Val(qarg)
                r == search(RagStore, asked, top_k, order)
                e == retrieve_relevant(EngStore, asked, qtop_k)
            IN /\ top_k >= chunk_count(RagStore)
               /\ qtop_k >= Len(eng_chunks)
               /\ rag_last' = RagCall("search",
                                      [query |-> asked, top_k |-> top_k], r)
               /\ eng_last' = EngCall("_retrieve_relevant",
                                      [question |-> asked, top_k |-> qtop_k],
                                      [i \in 1..Len(e) |->
                                          [chunk |-> e[i],
                                           score |-> ScoredAs(EngStore, asked,
                                                              e[i].content)]],
                                      <<>>)
               /\ UNCHANGED <<rag_chunks, rag_index, added_under, deleted_docs,
                              latest_add>>
               /\ UNCHANGED <<eng_documents, eng_chunks, eng_uuids>>
               /\ UNCHANGED <<memvars, chunkvars, loopvars>>

InitPaths == InitEngine

NextPaths ==
    \/ AddToBoth
    \/ RetrieveBoth

SpecPaths == InitPaths /\ [][NextPaths]_vars

---------------------------------------------------------------------------
(* Properties of ConversationMemory, checked under Spec.                   *)

\* The last k elements of seq.
LastN(seq, k) == SubSeq(seq, Len(seq) - k + 1, Len(seq))

\* What get_history(s) returns in the current state.
History(s) == get_history(Store, s, None).ret

\* The rendering of a list of messages, one line each.
RenderLines(msgs) ==
    Join([i \in 1..Len(msgs) |-> RenderMessage(msgs[i])], <<"\n">>)

\* The estimated cost (in tenths of a token) of a list of messages.
RECURSIVE CostOf(_)
CostOf(msgs) ==
    IF msgs = <<>> THEN 0
    ELSE TokenCost(RenderMessage(Head(msgs))) + CostOf(Tail(msgs))

\* C1: the history of every live session is the last min(n, max_history)
\* messages appended to it since its last create or clear, in append order
\* (n the number of such appends); its length never exceeds max_history.
C1_HistoryIsLastAppended ==
    \A s \in DOMAIN sessions :
        LET n == Len(appended[s])
        IN /\ History(s) = LastN(appended[s], Min(n, max_history))
           /\ Len(History(s)) <= max_history

\* A session whose log was trimmed and still holds two messages.
C1_Witness ==
    \E s \in DOMAIN sessions :
        /\ Len(appended[s]) > max_history
        /\ Len(sessions[s]) = 2

\* C2 (as claimed): get_history(s, limit) returns the min(limit, len) most
\* recent messages of s in chronological order for every limit >= 0, and all
\* of them when limit is omitted.
C2_LimitReturnsMostRecent ==
    (last.op = "get_history" /\ (last.arg = None \/ Val(last.arg) >= 0)) =>
        LET s == Val(last.sid)
            log == IF s \in DOMAIN sessions THEN sessions[s] ELSE <<>>
            k == IF last.arg = None THEN Len(log)
                 ELSE Min(Val(last.arg), Len(log))
        IN last.ret = LastN(log, k)

\* C3: on an id that is not live, get_history returns the empty sequence,
\* get_context the empty string, clear_session and delete_session false,
\* and the sessions, their logs and their metadata are left as they were.
C3_UnknownSessionIsHarmless ==
    [][ ( /\ last'.op \in {"get_history", "get_context",
                           "clear_session", "delete_session"}
          /\ last'.was = None )
        => /\ sessions' = sessions
           /\ metadata' = metadata
           /\ last'.op \in {"get_history", "get_context"} => last'.ret = <<>>
           /\ last'.op \in {"clear_session", "delete_session"}
                  => last'.ret = FALSE ]_vars

\* clear_session was refused for an unknown id while another session holds
\* messages.
C3_Witness ==
    /\ last.op = "clear_session"
    /\ last.was = None
    /\ last.ret = FALSE
    /\ \E s \in DOMAIN sessions : sessions[s] # <<>>

\* C4: create_session(id) leaves id live with an empty log and message_count
\* 0, whatever id was before; and an add_message(id, role, c) that follows it
\* makes get_history(id) exactly one message, of content c.
C4_CreateGivesEmptySession ==
    [][ /\ last'.op = "create_session" =>
               LET id == last'.ret
               IN /\ last'.sid # None => id = Val(last'.sid)
                  /\ id \in list_sessions(Store').ret
                  /\ get_history(Store', id, None).ret = <<>>
                  /\ get_session_info(Store', id).ret # None
                  /\ Val(get_session_info(Store', id).ret).message_count = 0
                  /\ id \in DOMAIN metadata'
                  /\ metadata'[id].message_count = 0
        /\ ( /\ last.op = "create_session"
             /\ last'.op = "add_message"
             /\ Val(last'.sid) = last.ret ) =>
               LET h == get_history(Store', last.ret, None).ret
               IN /\ Len(h) = 1
                  /\ h[1].content = last'.arg.content
                  /\ h[1].role = last'.arg.role ]_vars

\* create_session was called on a live id whose log held messages.
C4_Witness ==
    /\ last.op = "create_session"
    /\ last.was # None
    /\ Val(last.was) > 0

\* C5: clear_session(s) on a live session returns true and leaves s live
\* (listed, with session info) with an empty log and message_count 0; an
\* add_message(s, ...) that follows appends to that same session.
C5_ClearKeepsSessionAlive ==
    [][ /\ (last'.op = "clear_session" /\ last'.was # None) =>
               LET s == Val(last'.sid)
               IN /\ last'.ret = TRUE
                  /\ s \in list_sessions(Store').ret
                  /\ get_session_info(Store', s).ret # None
                  /\ Val(get_session_info(Store', s).ret).message_count = 0
                  /\ get_history(Store', s, None).ret = <<>>
        /\ ( /\ last.op = "clear_session"
             /\ last.was # None
             /\ last'.op = "add_message"
             /\ last'.sid = last.sid ) =>
               LET s == Val(last'.sid)
                   h == get_history(Store', s, None).ret
               IN /\ last'.was = Some(0)
                  /\ list_sessions(Store').ret = list_sessions(Store).ret
                  /\ Len(h) = 1
                  /\ h[1].message_id = last'.ret
                  /\ h[1].content = last'.arg.content
                  /\ Val(get_session_info(Store', s).ret).message_count = 1
       ]_vars

\* clear_session was called on a live session whose log held messages.
C5_Witness ==
    /\ last.op = "clear_session"
    /\ last.was # None
    /\ Val(last.was) > 0

\* C6: delete_session(s) on a live session returns true and removes its log
\* and its metadata (s is no longer listed and has no session info); an
\* add_message(s, ...) that follows creates a session whose history is the
\* new message alone.
C6_DeleteRemovesSession ==
    [][ /\ (last'.op = "delete_session" /\ last'.was # None) =>
               LET s == Val(last'.sid)
               IN /\ last'.ret = TRUE
                  /\ s \notin DOMAIN sessions'
                  /\ s \notin DOMAIN metadata'
                  /\ s \notin list_sessions(Store').ret
                  /\ get_session_info(Store', s).ret = None
        /\ ( /\ last.op = "delete_session"
             /\ last.was # None
             /\ last'.op = "add_message"
             /\ last'.sid = last.sid ) =>
               LET s == Val(last'.sid)
                   h == get_history(Store', s, None).ret
               IN /\ last'.was = None
                  /\ s \in list_sessions(Store').ret
                  /\ Len(h) = 1
                  /\ h[1].message_id = last'.ret
                  /\ h[1].content = last'.arg.content
                  /\ Val(get_session_info(Store', s).ret).message_count = 1
       ]_vars

\* delete_session was called on a live session whose log held messages.
C6_Witness ==
    /\ last.op = "delete_session"
    /\ last.was # None
    /\ Val(last.was) > 0

\* C7 (as claimed): for every max_tokens >= 0 passed to get_context, the
\* messages included in the context returned (a suffix of the history) have
\* a total estimated cost of at most max_tokens.
C7_ContextWithinBudget ==
    (last.op = "get_context" /\ last.arg # None) =>
        LET h == History(Val(last.sid))
        IN \E j \in 0..Len(h) :
               /\ last.ret = RenderLines(LastN(h, j))
               /\ CostOf(LastN(h, j)) <= 10 * Val(last.arg)

\* C8: the context returned is the rendering, one whole line per message and
\* oldest first, of a suffix of the history, and when the suffix is not the
\* whole history the next older message did not fit in the budget.
C8_ContextIsGreedySuffix ==
    last.op = "get_context" =>
        LET h == History(Val(last.sid))
            budget == IF last.arg = None THEN max_context_tokens
                      ELSE Val(last.arg)
        IN \E j \in 0..Len(h) :
               /\ last.ret = RenderLines(LastN(h, j))
               /\ j < Len(h) => CostOf(LastN(h, j + 1)) > 10 * budget

\* A context that holds some messages of the history and not all of them.
C8_Witness ==
    /\ last.op = "get_context"
    /\ last.ret # <<>>
    /\ last.ret # RenderLines(History(Val(last.sid)))

---------------------------------------------------------------------------
(* Properties of _chunk_text, checked under SpecChunk.                     *)

\* The k-th window (k = 0, 1, ...) of `size` words taken every `stride` words.
Window(words, size, stride, k) ==
    [j \in 1..Min(size, Len(words) - k * stride) |-> words[k * stride + j]]

\* The number of k >= 0 with k * stride < n, for stride > 0.
WindowCount(n, stride) == (n + stride - 1) \div stride

\* The chunks are, in order, the windows of chunk_size words taken every
\* chunk_size - overlap words: each has at most chunk_size words, a full
\* chunk ends with the `overlap` words its successor starts with, and every
\* word of the text is in the chunk of a window that covers it.
ChunksAreOverlappingWindows ==
    LET r == Val(chunked)
        words == Split(text)
        stride == chunk_size - overlap
        count == WindowCount(Len(words), stride)
    IN /\ ~r.raised
       /\ Len(r.chunks) = count
       /\ \A k \in 1..count :
              /\ Split(r.chunks[k]) = Window(words, chunk_size, stride, k - 1)
              /\ r.chunks[k] = Join(Window(words, chunk_size, stride, k - 1),
                                    <<" ">>)
              /\ Len(Split(r.chunks[k])) <= chunk_size
       /\ \A k \in 1..(count - 1) :
              Len(Split(r.chunks[k])) = chunk_size =>
                  LastN(Split(r.chunks[k]), overlap)
                      = SubSeq(Split(r.chunks[k + 1]), 1, overlap)
       /\ \A i \in 1..Len(words) :
              \E k \in 1..Len(r.chunks) :
                  /\ (k - 1) * stride < i
                  /\ i <= (k - 1) * stride + Len(Split(r.chunks[k]))
                  /\ Split(r.chunks[k])[i - (k - 1) * stride] = words[i]

\* C9 (as claimed): for overlap < size the chunks are the overlapping windows.
C9_AsClaimed ==
    (chunked # None /\ overlap < chunk_size) => ChunksAreOverlappingWindows

\* C9 (amended): for 0 <= overlap < size and a text of at least one word the
\* chunks are the overlapping windows.
C9_ChunksAreWindows ==
    (chunked # None /\ 0 <= overlap /\ overlap < chunk_size
        /\ Split(text) # <<>>)
        => ChunksAreOverlappingWindows

\* A text chunked into at least three windows that overlap.
C9_Witness ==
    /\ chunked # None
    /\ 0 < overlap
    /\ overlap < chunk_size
    /\ Len(Val(chunked).chunks) >= 3

\* C10 (as claimed): with overlap >= size the call returns the chunks of a
\* split without overlap, the windows of `size` words taken every `size` words.
C10_OverlapNotBelowSize ==
    (chunked # None /\ overlap >= chunk_size) =>
        LET r == Val(chunked)
            words == Split(text)
            count == WindowCount(Len(words), chunk_size)
        IN /\ ~r.raised
           /\ Len(r.chunks) = count
           /\ \A k \in 1..count :
                  Split(r.chunks[k]) = Window(words, chunk_size, chunk_size, k - 1)

\* C11 (as claimed): _chunk_text always returns at least one chunk; when the
\* text yields no window (it has no word, or the stride is negative) the one
\* chunk is the whole text; a chunk is empty only if the text has no word.
C11_AlwaysAChunk ==
    chunked # None =>
        LET r == Val(chunked)
            words == Split(text)
        IN /\ ~r.raised
           /\ Len(r.chunks) >= 1
           /\ (words = <<>> \/ overlap > chunk_size) => r.chunks = <<text>>
           /\ \A k \in 1..Len(r.chunks) : r.chunks[k] = <<>> => words = <<>>

---------------------------------------------------------------------------
(* Properties of RAGStore, checked under SpecRag.                          *)

NoDuplicates(seq) == \A i, j \in 1..Len(seq) : seq[i] = seq[j] => i = j

\* C12: the id add_chunk returns is the id under which the content is
\* stored whatever the doc_id, no content is ever stored under two ids,
\* adding a content that is already stored leaves chunk_count as it was,
\* and no postings list holds a chunk id twice.
C12_ContentAddressedIdempotent ==
    /\ \A i, j \in DOMAIN rag_chunks :
           rag_chunks[i].content = rag_chunks[j].content => i = j
    /\ \A w \in DOMAIN rag_index : NoDuplicates(rag_index[w])
    /\ rag_last.op = "add_chunk" =>
           /\ rag_last.ret \in DOMAIN rag_chunks
           /\ rag_chunks[rag_last.ret].content = rag_last.arg.content
           /\ rag_last.ret \in rag_last.was =>
                  chunk_count(RagStore) = Cardinality(rag_last.was)

\* A content added again, after it was added under the other doc id too,
\* while the postings of one of its words list two chunks.
C12_Witness ==
    /\ rag_last.op = "add_chunk"
    /\ rag_last.ret \in rag_last.was
    /\ \A d \in DocIds : rag_last.arg.content \in added_under[d]
    /\ \E w \in Words(rag_last.arg.content) : Len(rag_index[w]) = 2

\* The content of a chunk id.
ContentOf(c) == CHOOSE x \in RagContents : md5_16(x) = c

\* The chunk ids a postings list of the index holds.
Listed(w) ==
    IF w \in DOMAIN rag_index
    THEN {rag_index[w][i] : i \in 1..Len(rag_index[w])}
    ELSE {}

\* C13: a chunk id is listed in the postings of a word exactly when the chunk
\* is stored and the word is one of the words of its lowercased content; and
\* a search never fails on the lookup of a chunk id.
C13_IndexMatchesStore ==
    /\ \A w \in (DOMAIN rag_index) \cup UNION {Words(c) : c \in RagContents} :
           \A c \in (DOMAIN rag_chunks) \cup Listed(w)
                       \cup {md5_16(x) : x \in RagContents} :
               c \in Listed(w) <=>
                   (c \in DOMAIN rag_chunks /\ w \in Words(rag_chunks[c].content))
    /\ rag_last.op = "search" => ~rag_last.ret.raised

\* A deletion that removed a chunk, emptied the postings of one of its words
\* and left another chunk listed under a word the two shared.
C13_Witness ==
    /\ rag_last.op = "delete_by_doc"
    /\ rag_last.ret >= 1
    /\ \E w \in DOMAIN rag_index : rag_index[w] = <<>>
    /\ \E c \in rag_last.was \ DOMAIN rag_chunks :
           \E w \in DOMAIN rag_index :
               /\ rag_index[w] # <<>>
               /\ w \in Words(ContentOf(c))

\* C14 (as claimed): delete_by_doc(d) removes exactly the chunks added under
\* d: every content added under d is gone afterwards, nothing else is
\* removed, the call returns the number of chunks removed and chunk_count
\* decreases by that number.
C14_DeleteRemovesAddedUnder ==
    rag_last.op = "delete_by_doc" =>
        LET gone == rag_last.was \ DOMAIN rag_chunks
        IN /\ \A x \in rag_last.arg.under : md5_16(x) \notin DOMAIN rag_chunks
           /\ \A c \in gone : ContentOf(c) \in rag_last.arg.under
           /\ rag_last.ret = Cardinality(gone)
           /\ chunk_count(RagStore) = Cardinality(rag_last.was) - rag_last.ret

\* C15: from a delete_by_doc(d) until the next add_chunk under d, no chunk of
\* the store has doc id d, and every search returns rows none of which has
\* doc id d.
C15_DeletedDocNotFound ==
    /\ \A c \in DOMAIN rag_chunks : rag_chunks[c].doc_id \notin deleted_docs
    /\ rag_last.op = "search" =>
           /\ ~rag_last.ret.raised
           /\ \A i \in 1..Len(rag_last.ret.rows) :
                  rag_last.ret.rows[i].doc_id \notin deleted_docs

\* A search that returns a chunk while a doc id is deleted and a content
\* with a word of the query is no longer stored.
C15_Witness ==
    /\ rag_last.op = "search"
    /\ Len(rag_last.ret.rows) >= 1
    /\ deleted_docs # {}
    /\ \E x \in RagContents :
           /\ md5_16(x) \notin DOMAIN rag_chunks
           /\ Words(x) \cap Words(rag_last.arg.query) # {}

\* C16: search returns without raising; each row is a stored chunk with at
\* least one of the distinct lowercased words of the query among its words,
\* and its score is the number of those words the chunk has over the number
\* of distinct query words; a query without words gives no row.
C16_SearchScores ==
    rag_last.op = "search" =>
        LET query_words == Words(rag_last.arg.query)
            rows == rag_last.ret.rows
        IN /\ ~rag_last.ret.raised
           /\ \A i \in 1..Len(rows) :
                  LET hits == query_words \cap Words(rows[i].content)
                  IN /\ rows[i].chunk_id \in DOMAIN rag_chunks
                     /\ rag_chunks[rows[i].chunk_id].content = rows[i].content
                     /\ rag_chunks[rows[i].chunk_id].doc_id = rows[i].doc_id
                     /\ hits # {}
                     /\ rows[i].score = <<Cardinality(hits), Cardinality(query_words)>>
           /\ query_words = {} => rows = <<>>

\* A search that returns a chunk with both words of the query and a chunk
\* with one of them.
C16_Witness ==
    /\ rag_last.op = "search"
    /\ \E i, j \in 1..Len(rag_last.ret.rows) :
           /\ rag_last.ret.rows[i].score = <<2, 2>>
           /\ rag_last.ret.rows[j].score = <<1, 2>>

\* The stored chunks with at least one word of the query.
Matching(q) ==
    {c \in DOMAIN rag_chunks : Words(rag_chunks[c].content) \cap Words(q) # {}}

\* C17: for top_k >= 0, search returns min(top_k, number of stored chunks
\* with a nonzero score) rows, in order of non-increasing score, and no
\* stored chunk left out has a higher score than a chunk returned.
C17_TopKRanked ==
    (rag_last.op = "search" /\ rag_last.arg.top_k >= 0) =>
        LET query_words == Words(rag_last.arg.query)
            rows == rag_last.ret.rows
            returned == {rows[i].chunk_id : i \in 1..Len(rows)}
            hits(c) == Cardinality(query_words \cap Words(rag_chunks[c].content))
        IN /\ ~rag_last.ret.raised
           /\ Len(rows) = Min(rag_last.arg.top_k,
                              Cardinality(Matching(rag_last.arg.query)))
           /\ Cardinality(returned) = Len(rows)
           /\ \A i \in 1..(Len(rows) - 1) : rows[i].score[1] >= rows[i + 1].score[1]
           /\ \A i \in 1..Len(rows) : rows[i].score[2] = Cardinality(query_words)
           /\ \A c \in Matching(rag_last.arg.query) \ returned :
                  \A r \in returned : hits(c) <= hits(r)

\* A search cut to one row: it returns a chunk with both words of the query
\* and leaves out a chunk with one of them.
C17_Witness ==
    /\ rag_last.op = "search"
    /\ rag_last.arg.top_k = 1
    /\ Len(rag_last.ret.rows) = 1
    /\ rag_last.ret.rows[1].score = <<2, 2>>
    /\ Cardinality(Matching(rag_last.arg.query)) >= 2

---------------------------------------------------------------------------
(* Properties of ResearchEngine, checked under SpecEngine.                 *)

\* The elements of a sequence.
Elements(seq) == {seq[i] : i \in 1..Len(seq)}

\* C19: every stored chunk belongs to a registered document; a
\* delete_document(d) of a registered d returns true and leaves the other
\* documents and exactly the chunks of the other documents, in their order;
\* for an unknown d it returns false and leaves documents and chunks as
\* they were.
C19_NoOrphanChunks ==
    /\ \A i \in 1..Len(eng_chunks) : eng_chunks[i].doc_id \in DOMAIN eng_documents
    /\ eng_last.op = "delete_document" =>
           LET d == eng_last.arg.doc_id
               was == eng_last.was
           IN IF d \in DOMAIN was.documents
              THEN /\ eng_last.ret = TRUE
                   /\ DOMAIN eng_documents = (DOMAIN was.documents) \ {d}
                   /\ \A x \in DOMAIN eng_documents :
                          eng_documents[x] = was.documents[x]
                   /\ Elements(eng_chunks)
                          = {c \in Elements(was.chunks) : c.doc_id # d}
                   /\ \A i, j \in 1..Len(was.chunks) :
                          (i < j /\ was.chunks[i].doc_id # d /\ was.chunks[j].doc_id # d)
                              => \E k, l \in 1..Len(eng_chunks) :
                                     /\ k < l
                                     /\ eng_chunks[k] = was.chunks[i]
                                     /\ eng_chunks[l] = was.chunks[j]
                   /\ Len(eng_chunks)
                          = Cardinality({i \in 1..Len(was.chunks) :
                                            was.chunks[i].doc_id # d})
              ELSE /\ eng_last.ret = FALSE
                   /\ EngStore = was

\* The deletion of a document of two chunks that leaves the chunks of
\* another document.
C19_Witness ==
    /\ eng_last.op = "delete_document"
    /\ eng_last.ret = TRUE
    /\ Len(eng_last.was.chunks) - Len(eng_chunks) = 2
    /\ eng_chunks # <<>>

\* The positions of the stored chunks that score above zero for a question.
Scoring(question) ==
    {i \in 1..Len(eng_chunks) :
        Words(question) \cap ChunkWords[eng_chunks[i].content] # {}}

\* What the claim says of a query: without a chunk that scores above zero,
\* the sentinel answer, no source and no call of llm.generate; otherwise one
\* call, whose context is made of the excerpts of at least one and at most
\* top_k chunks, all of them scoring above zero.
SentinelOrOneGeneration ==
    LET question == eng_last.arg.question
        top_k == eng_last.arg.top_k
        scoring == Scoring(question)
    IN IF scoring = {}
       THEN /\ eng_last.ret = [raised |-> FALSE, answer |-> Sentinel, sources |-> <<>>]
            /\ eng_last.generated = <<>>
       ELSE /\ Len(eng_last.generated) = 1
            /\ eng_last.generated[1].question = question
            /\ \E n \in 1..Min(top_k, Cardinality(scoring)) :
                   \E sel \in [1..n -> scoring] :
                       eng_last.generated[1].context
                           = Join([k \in 1..n |-> Excerpt(eng_chunks[sel[k]])],
                                  <<"\n", "\n">>)
            /\ eng_last.ret.raised \/ eng_last.ret.answer # Sentinel

\* C20 (as claimed): every query, whatever its top_k, gives the sentinel
\* without a generation call when no chunk scores above zero and otherwise
\* makes one generation call on at most top_k chunks of nonzero score.
C20_AsClaimed ==
    eng_last.op = "query" => SentinelOrOneGeneration

\* C20 (amended): the same, for the queries with top_k >= 1.
C20_SentinelOrOneGeneration ==
    (eng_last.op = "query" /\ eng_last.arg.top_k >= 1) => SentinelOrOneGeneration

\* A query with top_k >= 1 that called llm.generate while more chunks than
\* top_k scored above zero and another chunk scored zero.
C20_Witness ==
    /\ eng_last.op = "query"
    /\ eng_last.arg.top_k >= 1
    /\ Len(eng_last.generated) = 1
    /\ Cardinality(Scoring(eng_last.arg.question)) > eng_last.arg.top_k
    /\ Cardinality(Scoring(eng_last.arg.question)) < Len(eng_chunks)

---------------------------------------------------------------------------
(* Properties of the request handlers, checked under SpecLoop.             *)

\* C18: with concurrent request handlers no read (get_history, get_context,
\* RAGStore.search, the retrieval of ResearchEngine) is taken while another
\* handler is inside a method of a store, and so none observes a mutation
\* mid-flight: a read of the memory finds a log of at most max_history
\* messages whose length is its message_count; a search finds every stored
\* chunk listed under each of its words and no posting of a chunk that is
\* not stored (in particular none in a cleared store); a retrieval finds
\* every document with all its chunks and no chunk of a deleted document.
C18_ReadsSeeWholeMutations ==
    /\ ~seen.amid
    /\ seen.reader \in {"get_history", "get_context"} =>
           /\ seen.view.length <= max_history
           /\ seen.view.length = seen.view.message_count
    /\ seen.reader = "search" =>
           /\ seen.view.unlisted = {}
           /\ seen.view.unstored = {}
    /\ seen.reader = "retrieve" =>
           /\ seen.view.partial = {}
           /\ seen.view.orphans = {}

\* A get_history that finds a full log while a chat request is suspended at
\* its await, between its two add_message calls.
C18_Witness ==
    /\ seen.reader = "get_history"
    /\ seen.awaited
    /\ seen.view.length = max_history

---------------------------------------------------------------------------
(* Further properties of ResearchEngine, checked under SpecEngine.         *)

\* The chunks that the query recorded in eng_last retrieved: query leaves
\* the lists as they are, and the retrieval is a function of them.
Retrieved ==
    retrieve_relevant(EngStore, eng_last.arg.question, eng_last.arg.top_k)

\* C21: the sources that a query returns are the source labels of the
\* chunks it retrieved, each exactly once, in the order in which they are
\* first met in the ranked sequence of those chunks.
C21_SourcesInFirstEncounteredOrder ==
    (eng_last.op = "query" /\ ~eng_last.ret.raised) =>
        eng_last.ret.sources
            = FirstOccurrences([i \in 1..Len(Retrieved) |-> Retrieved[i].source])

---------------------------------------------------------------------------
(* Properties of Agent.process, checked under SpecAgent.                   *)

LastOf(log) == log[Len(log)]

\* C22: a process call has stored the user message, as the last message of
\* the session, when it awaits the module handler; when it returns it has
\* stored after it, as a second message and again as the last of the
\* session, the reply that it returns, which is the response of the handler
\* or, if the handler raised, the fallback reply: two messages in all, the
\* user message first.
C22_UserMessageThenReply ==
    \A h \in Handlers :
        /\ task[h].pc \in {"generate", "done"} =>
               LET l == task[h].locals
               IN /\ l.issued # <<>>
                  /\ LastOf(l.issued) = Message(RoleUser, l.message, l.message_id)
        /\ task[h].pc = "done" =>
               LET l == task[h].locals
               IN /\ l.left # <<>>
                  /\ LastOf(l.left) = Message(RoleAssistant, l.ret.response, l.reply_id)
                  /\ l.reply_id > l.message_id
                  /\ l.ret.response
                         = IF l.raised THEN FallbackReply ELSE <<"o", "k">>
                  /\ l.ret.message_id = l.message_id
                  /\ (l.found = Some(Len(l.issued)) /\ Len(l.issued) < max_history)
                         => Len(l.left) = Len(l.issued) + 1

\* A process call that has returned the fallback reply, its handler having
\* raised, while another process call is at its await.
C22_Witness ==
    \E h \in Handlers :
        /\ task[h].pc = "done"
        /\ task[h].locals.raised
        /\ Suspended # {}

\* C23: a process call without a session_id makes a new session, one that
\* was not live, and returns its id; with the id of a live session it
\* returns that id and adds its user message to the log it found, which
\* loses only what max_history evicts; with an id that is not live it makes
\* the session under that very id.
C23_SessionCreatedOrUsed ==
    \A h \in Handlers :
        task[h].pc \in {"generate", "done"} =>
            LET l == task[h].locals
                user == Message(RoleUser, l.message, l.message_id)
            IN /\ l.ret.session_id = l.session_id
               /\ l.given = None =>
                      /\ l.session_id \in GenIds
                      /\ l.prior = None
                      /\ l.issued = <<user>>
               /\ l.given # None =>
                      /\ l.session_id = Val(l.given)
                      /\ l.issued = IF l.prior = None THEN <<user>>
                                    ELSE Trim(Append(Val(l.prior), user),
                                              max_history)

\* A process call on a live session whose log was not empty and was not full.
C23_Witness ==
    \E h \in Handlers :
        /\ task[h].pc = "done"
        /\ task[h].locals.given # None
        /\ task[h].locals.prior # None
        /\ Len(task[h].locals.issued) > 1
        /\ Len(task[h].locals.issued) < max_history

---------------------------------------------------------------------------
(* Further properties of ConversationMemory, checked under Spec.           *)

\* ceil(1.3 * words), in tenths of a token.
CeilCost(msg_text) == 10 * ((TokenCost(msg_text) + 9) \div 10)

\* The loop of get_context if each message were charged CeilCost.
RECURSIVE ContextLoopCeil(_, _, _, _)
ContextLoopCeil(history, i, acc, max_tokens) ==
    IF i = 0 THEN acc
    ELSE LET msg_text == RenderMessage(history[i])
             msg_tokens == CeilCost(msg_text)
         IN IF acc.estimated_tokens + msg_tokens > 10 * max_tokens
            THEN acc
            ELSE ContextLoopCeil(history, i - 1,
                     [context_parts |-> <<msg_text>> \o acc.context_parts,
                      estimated_tokens |-> acc.estimated_tokens + msg_tokens],
                     max_tokens)

\* C24: get_context admits the messages that it would admit if the cost of
\* each message, 1.3 times its number of words, were rounded up to an
\* integer before it is added to the running total.
C24_CostRoundedUpPerMessage ==
    last.op = "get_context" =>
        LET h == get_history(Store, Val(last.sid), None).ret
            acc == ContextLoopCeil(h, Len(h),
                                   [context_parts |-> <<>>, estimated_tokens |-> 0],
                                   OrElse(last.arg, max_context_tokens))
        IN last.ret = Join(acc.context_parts, <<"\n">>)

\* C25: whatever calls were made, the sessions that have a log are those
\* that have metadata, the message_count of each is the length of its log,
\* and the message_count that get_session_info reports for a live session
\* is that length.
C25_MetadataFollowsLog ==
    /\ DOMAIN sessions = DOMAIN metadata
    /\ \A s \in DOMAIN sessions :
           /\ metadata[s].message_count = Len(sessions[s])
           /\ Val(get_session_info(Store, s).ret).message_count = Len(sessions[s])
    /\ (last.op = "get_session_info" /\ last.ret # None) =>
           Val(last.ret).message_count = Len(sessions[Val(last.sid)])

\* A get_session_info on a session that has lost a message to eviction.
C25_Witness ==
    /\ last.op = "get_session_info"
    /\ last.ret # None
    /\ Len(appended[Val(last.sid)]) > Len(sessions[Val(last.sid)])
    /\ Len(sessions[Val(last.sid)]) > 0

\* The target of the call recorded in `last`.
Target == IF last.op = "create_session" THEN last.ret ELSE Val(last.sid)

\* C26: create_session, add_message, clear_session and delete_session on a
\* session leave every other session as it was: live or not, and if live
\* with the same messages in the same order and the same metadata; so also
\* when the append evicts a message of the target.
C26_OtherSessionsUntouched ==
    last.op \in {"create_session", "add_message", "clear_session",
                 "delete_session"} =>
        \A b \in AllIds \ {Target} :
            /\ b \in DOMAIN sessions <=> b \in DOMAIN last.rest.sessions
            /\ b \in DOMAIN metadata <=> b \in DOMAIN last.rest.metadata
            /\ b \in DOMAIN sessions => sessions[b] = last.rest.sessions[b]
            /\ b \in DOMAIN metadata => metadata[b] = last.rest.metadata[b]

\* An add_message that evicted a message of its session while the other
\* session held messages.
C26_Witness ==
    /\ last.op = "add_message"
    /\ last.was = Some(max_history)
    /\ \E b \in AllIds \ {Target} : b \in DOMAIN sessions /\ sessions[b] # <<>>

---------------------------------------------------------------------------
(* Properties of the reads of the two stores, checked under SpecStores.    *)

\* C27: get_history, get_context, get_session_info and list_sessions leave
\* the memory as they found it, the same sessions with the same logs and
\* metadata (so a read of an unknown id makes no session), and search and
\* chunk_count leave the chunks and the postings of the RAG store as they
\* found them.
C27_ReadsChangeNothing ==
    /\ last.op \in ReadOps => last.found = Some(Store)
    /\ rag_last.op \in {"search", "chunk_count"} => rag_last.found = Some(RagStore)

\* A get_context of an id that is not live, while another session is.
C27_Witness ==
    /\ last.op = "get_context"
    /\ Val(last.sid) \notin DOMAIN sessions
    /\ DOMAIN sessions # {}

---------------------------------------------------------------------------
(* Further properties of RAGStore, checked under SpecRag.                  *)

\* C28: a content is stored once, with the doc_id and the metadata of its
\* latest add: adding under d2 a content that is stored under d1 keeps the
\* one chunk and makes it a chunk of d2. A delete_by_doc then removes, and
\* counts, the contents whose latest add was under its doc_id, and no
\* other: for a content of d1 that was added again under d2,
\* delete_by_doc(d1) returns 0 and delete_by_doc(d2) removes it.
C28_LatestAddOwnsTheChunk ==
    /\ \A c \in RagContents :
           IF latest_add[c] = None
           THEN md5_16(c) \notin DOMAIN rag_chunks
           ELSE /\ md5_16(c) \in DOMAIN rag_chunks
                /\ rag_chunks[md5_16(c)]
                       = [content |-> c, doc_id |-> Val(latest_add[c]).doc_id,
                          metadata |-> Val(latest_add[c]).metadata]
    /\ rag_last.op = "delete_by_doc" =>
           /\ rag_last.ret = Cardinality(rag_last.arg.latest)
           /\ \A c \in rag_last.arg.latest : md5_16(c) \notin DOMAIN rag_chunks

\* A delete_by_doc that returned 0 for a doc id under which a content had
\* been added, the content being stored still, as a chunk of the other
\* document with that document's metadata.
C28_Witness ==
    /\ rag_last.op = "delete_by_doc"
    /\ rag_last.arg.doc_id = "d1"
    /\ rag_last.ret = 0
    /\ \E c \in rag_last.arg.under :
           /\ md5_16(c) \in DOMAIN rag_chunks
           /\ rag_chunks[md5_16(c)].doc_id = "d2"
           /\ rag_chunks[md5_16(c)].metadata # {}

---------------------------------------------------------------------------
(* Further properties of Agent.process, checked under SpecAgent.           *)

\* C29: a process call whose session was deleted or cleared while the call
\* was at its await, nothing else being done to the session before the
\* process call goes on, returns its reply all the same; the session is
\* live when it returns, and its log then holds the reply alone, as its
\* one message, without the user message of the call.
C29_ReplySurvivesDeleteAndClear ==
    \A h \in Handlers :
        (/\ task[h].pc = "done"
         /\ task[h].locals.prev \in {"delete_session", "clear_session"}) =>
            LET l == task[h].locals
            IN /\ l.left = <<Message(RoleAssistant, l.ret.response, l.reply_id)>>
               /\ l.ret.session_id = l.session_id
               /\ l.prev = "delete_session" => l.found = None
               /\ l.prev = "clear_session" => l.found = Some(0)

\* A process call that returned after its session was deleted at its await,
\* the session being live again with one message.
C29_Witness ==
    \E h \in Handlers :
        /\ task[h].pc = "done"
        /\ task[h].locals.prev = "delete_session"
        /\ task[h].locals.session_id \in DOMAIN sessions
        /\ Len(sessions[task[h].locals.session_id]) = 1
        /\ metadata[task[h].locals.session_id].message_count = 1

---------------------------------------------------------------------------
(* The two retrieval paths compared, checked under SpecPaths.              *)

\* The rows of a result as a set of [content, score].
Scored(rows, content_of(_)) ==
    {[content |-> content_of(rows[i]), score |-> rows[i].score] :
        i \in 1..Len(rows)}

\* C30: on the same pairwise distinct chunk contents and the same query,
\* with top_k at least the number of chunks on each path, search and
\* _retrieve_relevant return the same contents with the same scores: the
\* held contents that share a word with the query, each with the share of
\* the query words it has, and no chunk of score zero.
C30_BothPathsRetrieveTheSame ==
    (rag_last.op = "search" /\ eng_last.op = "_retrieve_relevant") =>
        LET by_index == Scored(rag_last.ret.rows, LAMBDA row : row.content)
            by_scan == Scored(eng_last.ret, LAMBDA row : row.chunk.content)
            held == {Val(rag_last.found).chunks[c].content :
                        c \in DOMAIN Val(rag_last.found).chunks}
            query_words == Words(rag_last.arg.query)
        IN /\ ~rag_last.ret.raised
           /\ by_index = by_scan
           /\ \A row \in by_index : row.score[1] > 0
           /\ \A row \in by_scan : row.score[1] > 0
           /\ {row.content : row \in by_index}
                  = {c \in held : Words(c) \cap query_words # {}}
           /\ \A row \in by_index :
                  row.score = <<Cardinality(Words(row.content) \cap query_words),
                                Cardinality(query_words)>>

\* Both paths returned one of two held chunks, the other having no word of
\* the query.
C30_Witness ==
    /\ rag_last.op = "search"
    /\ eng_last.op = "_retrieve_relevant"
    /\ Cardinality(DOMAIN Val(rag_last.found).chunks) = 2
    /\ Len(rag_last.ret.rows) = 1
    /\ Len(eng_last.ret) = 1

===========================================================================
